---- MODULE Spec2Model ----
(***************************************************************************)
(* Canteen wallet ledger and order-status state machine of Zayko.          *)
(*                                                                         *)
(*   lib/canteen-wallet.ts          updateCanteenWallet                    *)
(*   api/admin/orders/route.ts      PATCH (status change, cancellation)    *)
(*   api/admin/wallet/withdraw      POST  (withdrawal)                     *)
(*   api/admin/auto-orders-forecast GET   (demand forecast)                *)
(*                                                                         *)
(* A Firestore transaction is modelled as the code builds it: the handler  *)
(* reads documents, queues writes (set / update with FieldValue.increment) *)
(* in program order, and the commit applies the queued writes in that      *)
(* order, all or nothing.  In Spec, SpecLedger and SpecRequest one action   *)
(* is one runTransaction call.  In SpecConc two clients run their           *)
(* transactions step by step (each transaction.get, then the commit); the   *)
(* store commits a transaction only if no document it read has been         *)
(* written since, and otherwise runs the handler again.                     *)
(* Time is a tick counter; an ISO timestamp is a tick and its date part    *)
(* (toISOString().split("T")[0]) is the tick divided by TicksPerDay.       *)
(* The createdAt / updatedAt stamps of log entries and orders are left out *)
(* of the documents: no handler reads them.                                *)
(***************************************************************************)
EXTENDS Integers, Sequences, FiniteSets, TLC

\* ------------------------------------------------------------- bounds
MaxNow == 2          \* last clock tick
TicksPerDay == 2     \* clock ticks in one calendar day
MaxBal == 1          \* largest counter of a wallet drawn by InitLedger
MaxAmount == 2       \* largest amount / order total
MaxOps == 3          \* requests handled in one behaviour of Spec

VARIABLES
    now,                  \* the clock (new Date())
    wallet,               \* wallets/canteen_owner
    canteenTransactions,  \* the merchant log, in creation order
    withdrawals,          \* withdrawal receipts, in creation order
    orders,               \* orders/<id>
    users,                \* users/<id>
    walletTransactions,   \* the customers' log, in creation order
    nOps,                 \* requests handled so far
    lastOp,               \* the last request: its response, or the ledger
                          \* call with the wallet it read
    version,              \* commits that have written each document
    txn,                  \* the transaction each client has in progress
    start,                \* the store when the clients started
    autoOrders,           \* autoOrders/<id>
    menuItems,            \* menuItems/<id>
    forecastAt,           \* the instant of the forecast request
    report,               \* the JSON response of the forecast request
    rzpOrders,            \* the orders Razorpay holds, with their amount in paise
    payments,             \* payments/<razorpay_payment_id>
    verifying,            \* the verification each client has in progress
    categories,           \* the categories collection, in creation order
    itemCategory,         \* menuItems/<id>.category
    catReq                \* the category request each client has in progress

\* The variables only SpecConc moves.
concVars == <<version, txn, start>>

\* The variables only SpecForecast uses.
forecastVars == <<autoOrders, menuItems, forecastAt, report>>

\* The variables only SpecVerify uses.
payVars == <<rzpOrders, payments, verifying>>

\* The variables only SpecCategories uses.
catVars == <<categories, itemCategory, catReq>>

vars == <<now, wallet, canteenTransactions, withdrawals, orders, users,
          walletTransactions, nOps, lastOp, version, txn, start,
          autoOrders, menuItems, forecastAt, report,
          rzpOrders, payments, verifying, categories, itemCategory, catReq>>

\* ------------------------------------------------------------- values
Statuses == {"pending", "confirmed", "preparing", "ready", "completed", "cancelled"}
ActiveStatuses == {"confirmed", "preparing", "ready"}
DisplayIds == {"A1", "B2"}
NoOrderId == "-"
Null == -1

\* new Date().toISOString().split("T")[0]
DateOf(t) == t \div TicksPerDay

\* A field of an update: a plain value or FieldValue.increment(n).
Val(n) == [inc |-> FALSE, v |-> n]
Inc(n) == [inc |-> TRUE, v |-> n]

NoWallet ==
    [exists |-> FALSE, totalBalance |-> 0, pendingAmount |-> 0,
     todayCollection |-> 0, todayDate |-> 0, lastUpdated |-> 0]

\* transaction.set(walletRef, data): the document becomes exactly data.
SetWallet(data) ==
    [exists |-> TRUE,
     totalBalance |-> data["totalBalance"].v,
     pendingAmount |-> data["pendingAmount"].v,
     todayCollection |-> data["todayCollection"].v,
     todayDate |-> data["todayDate"].v,
     lastUpdated |-> data["lastUpdated"].v]

FieldAfter(doc, data, f) ==
    IF f \in DOMAIN data
    THEN IF data[f].inc THEN doc[f] + data[f].v ELSE data[f].v
    ELSE doc[f]

\* transaction.update(walletRef, data): only the named fields change.
UpdateWallet(doc, data) ==
    [exists |-> doc.exists,
     totalBalance |-> FieldAfter(doc, data, "totalBalance"),
     pendingAmount |-> FieldAfter(doc, data, "pendingAmount"),
     todayCollection |-> FieldAfter(doc, data, "todayCollection"),
     todayDate |-> FieldAfter(doc, data, "todayDate"),
     lastUpdated |-> FieldAfter(doc, data, "lastUpdated")]

ApplyWalletWrite(doc, w) ==
    IF w.op = "set" THEN SetWallet(w.data) ELSE UpdateWallet(doc, w.data)

RECURSIVE ApplyWalletWrites(_, _)
ApplyWalletWrites(doc, ws) ==
    IF ws = <<>> THEN doc
    ELSE ApplyWalletWrites(ApplyWalletWrite(doc, Head(ws)), Tail(ws))

\* ------------------------------------------- updateCanteenWallet
isNewConfirmed(oldStatus, newStatus) ==
    oldStatus = "pending" /\ newStatus \in ActiveStatuses

isNewCompleted(oldStatus, newStatus) ==
    oldStatus \in ActiveStatuses /\ newStatus = "completed"

isDirectCompleted(oldStatus, newStatus) ==
    oldStatus = "pending" /\ newStatus = "completed"

\* Faulty variant: a pending order counts as active when it is cancelled.
isCancellingActive_AnyOpen(oldStatus, newStatus) ==
    oldStatus \in ActiveStatuses \cup {"pending"} /\ newStatus = "cancelled"

isCancellingActive(oldStatus, newStatus) ==
    oldStatus \in ActiveStatuses /\ newStatus = "cancelled"

\* Faulty variant: any move out of completed counts as a refund.
isCancellingCompleted_AnyMove(oldStatus, newStatus) ==
    oldStatus = "completed"

isCancellingCompleted(oldStatus, newStatus) ==
    oldStatus = "completed" /\ newStatus = "cancelled"

\* Faulty variant: the rollover moves the date and keeps the old collection.
initWrites_NoReset(walletDoc, t) ==
    IF ~walletDoc.exists
    THEN << [op |-> "set",
             data |-> [totalBalance |-> Val(0), pendingAmount |-> Val(0),
                       todayCollection |-> Val(0), todayDate |-> Val(DateOf(t)),
                       lastUpdated |-> Val(t)]] >>
    ELSE IF walletDoc.todayDate # DateOf(t)
         THEN << [op |-> "update", data |-> [todayDate |-> Val(DateOf(t))]] >>
         ELSE << >>

\* Faulty variant: a new wallet is stamped with the epoch date.
initWrites_EpochDate(walletDoc, t) ==
    IF ~walletDoc.exists
    THEN << [op |-> "set",
             data |-> [totalBalance |-> Val(0), pendingAmount |-> Val(0),
                       todayCollection |-> Val(0), todayDate |-> Val(0),
                       lastUpdated |-> Val(t)]] >>
    ELSE IF walletDoc.todayDate # DateOf(t)
         THEN << [op |-> "update",
                  data |-> [todayCollection |-> Val(0), todayDate |-> Val(DateOf(t))]] >>
         ELSE << >>

\* The writes queued before the status logic: creation or day rollover.
initWrites(walletDoc, t) ==
    IF ~walletDoc.exists
    THEN << [op |-> "set",
             data |-> [totalBalance |-> Val(0), pendingAmount |-> Val(0),
                       todayCollection |-> Val(0), todayDate |-> Val(DateOf(t)),
                       lastUpdated |-> Val(t)]] >>
    ELSE IF walletDoc.todayDate # DateOf(t)
         THEN << [op |-> "update",
                  data |-> [todayCollection |-> Val(0), todayDate |-> Val(DateOf(t))]] >>
         ELSE << >>

\* Faulty variant: accepted funds go straight to the settled balance.
newConfirmedUpdates_Settled(amount) == [totalBalance |-> Inc(amount)]

newConfirmedUpdates(amount) == [pendingAmount |-> Inc(amount)]

\* Faulty variant: the completion forgets today's collection.
newCompletedUpdates_NoCollection(amount) ==
    [pendingAmount |-> Inc(-amount), totalBalance |-> Inc(amount)]

newCompletedUpdates(amount) ==
    [pendingAmount |-> Inc(-amount), totalBalance |-> Inc(amount),
     todayCollection |-> Inc(amount)]

\* Faulty variant: the direct completion releases escrow that was never held.
directCompletedUpdates_Escrow(amount) ==
    [pendingAmount |-> Inc(-amount), totalBalance |-> Inc(amount),
     todayCollection |-> Inc(amount)]

directCompletedUpdates(amount) ==
    [totalBalance |-> Inc(amount), todayCollection |-> Inc(amount)]

\* Faulty variant: cancelling an active order deducts settled funds.
cancellingActiveUpdates_Settled(amount) == [totalBalance |-> Inc(-amount)]

cancellingActiveUpdates(amount) == [pendingAmount |-> Inc(-amount)]

\* Faulty variant: the refund also takes the amount out of today's collection.
cancellingCompletedUpdates_Today(amount) ==
    [totalBalance |-> Inc(-amount), todayCollection |-> Inc(-amount)]

cancellingCompletedUpdates(amount) == [totalBalance |-> Inc(-amount)]

\* The `updates` object after the status logic; a later assignment to a key
\* replaces an earlier one.
walletUpdates(oldStatus, newStatus, amount, t) ==
    LET u0 == [lastUpdated |-> Val(t)]
        u1 == IF isNewConfirmed(oldStatus, newStatus)
              THEN newConfirmedUpdates(amount) @@ u0 ELSE u0
        u2 == IF isNewCompleted(oldStatus, newStatus)
              THEN newCompletedUpdates(amount) @@ u1
              ELSE IF isDirectCompleted(oldStatus, newStatus)
                   THEN directCompletedUpdates(amount) @@ u1 ELSE u1
        u3 == IF isCancellingActive(oldStatus, newStatus)
              THEN cancellingActiveUpdates(amount) @@ u2 ELSE u2
        u4 == IF isCancellingCompleted(oldStatus, newStatus)
              THEN cancellingCompletedUpdates(amount) @@ u3 ELSE u3
    IN  u4

\* Faulty variant: a refund out of the settled total leaves no log document.
transactionRecord_NoRefund(oldStatus, newStatus, amount, orderId) ==
    IF isNewCompleted(oldStatus, newStatus)
    THEN << [amount |-> amount, type |-> "credit", orderId |-> orderId,
             description |-> "Order Completed"] >>
    ELSE IF isDirectCompleted(oldStatus, newStatus)
    THEN << [amount |-> amount, type |-> "credit", orderId |-> orderId,
             description |-> "Order Completed (Direct)"] >>
    ELSE << >>

\* transactionRecordDetails, as the list of log documents to create.
transactionRecord(oldStatus, newStatus, amount, orderId) ==
    IF isCancellingCompleted(oldStatus, newStatus)
    THEN << [amount |-> amount, type |-> "refund_deduction", orderId |-> orderId,
             description |-> "Order Refunded"] >>
    ELSE IF isNewCompleted(oldStatus, newStatus)
    THEN << [amount |-> amount, type |-> "credit", orderId |-> orderId,
             description |-> "Order Completed"] >>
    ELSE IF isDirectCompleted(oldStatus, newStatus)
    THEN << [amount |-> amount, type |-> "credit", orderId |-> orderId,
             description |-> "Order Completed (Direct)"] >>
    ELSE << >>

NoWrites == [wallet |-> << >>, txns |-> << >>]

\* Faulty variant: a zero amount passes the guard.
isNoOp_ZeroPasses(oldStatus, newStatus, amount) ==
    amount < 0 \/ oldStatus = newStatus

\* The early return.
isNoOp(oldStatus, newStatus, amount) ==
    amount <= 0 \/ oldStatus = newStatus

\* The writes one call queues on the transaction, given the wallet it read.
updateCanteenWallet(walletDoc, oldStatus, newStatus, amount, orderId, t) ==
    IF isNoOp(oldStatus, newStatus, amount) THEN NoWrites
    ELSE LET updates == walletUpdates(oldStatus, newStatus, amount, t)
         IN  [wallet |-> initWrites(walletDoc, t)
                         \o (IF Cardinality(DOMAIN updates) > 1
                             THEN << [op |-> "update", data |-> updates] >>
                             ELSE << >>),
              txns |-> transactionRecord(oldStatus, newStatus, amount, orderId)]

\* ------------------------------------------------------- state space
Amounts == 1..MaxAmount
CallAmounts == (-1)..MaxAmount
Ticks == 0..MaxNow

\* Faulty variant: the entry carries the signed change of the balance.
WithdrawalEntry_Negative(amount) ==
    [amount |-> -amount, type |-> "withdrawal", orderId |-> NoOrderId,
     description |-> "Wallet Withdrawal"]

\* The canteenTransactions document of a withdrawal.
WithdrawalEntry(amount) ==
    [amount |-> amount, type |-> "withdrawal", orderId |-> NoOrderId,
     description |-> "Wallet Withdrawal"]

\* No client is running a transaction.
NoClients == << >>
NoVersions == << >>
NoStart == << >>

\* No forecast is asked for.
NoReport == [status |-> 0]
NoForecast ==
    /\ autoOrders = << >> /\ menuItems = << >>
    /\ forecastAt = 0 /\ report = NoReport

\* No payment is being verified.
NoPayments == rzpOrders = << >> /\ payments = << >> /\ verifying = << >>

\* No category request is being handled.
NoCategories == categories = << >> /\ itemCategory = << >> /\ catReq = << >>

\* Wallet documents the handlers can have left behind by tick t.
WalletsAt(t) ==
    {NoWallet} \cup
    [exists : {TRUE}, totalBalance : 0..MaxBal, pendingAmount : 0..MaxBal,
     todayCollection : 0..MaxBal, todayDate : 0..DateOf(t), lastUpdated : 0..t]

NoOp == [op |-> "none"]

\* ------------------------------------------------ ledger engine alone
\* One transaction that only calls updateCanteenWallet and commits.
applyTransition(oldStatus, newStatus, amount, orderId) ==
    LET w == updateCanteenWallet(wallet, oldStatus, newStatus, amount, orderId, now)
    IN  /\ nOps = 0
        /\ wallet' = ApplyWalletWrites(wallet, w.wallet)
        /\ canteenTransactions' = canteenTransactions \o w.txns
        /\ nOps' = nOps + 1
        /\ lastOp' = [op |-> "transition", oldStatus |-> oldStatus,
                      newStatus |-> newStatus, amount |-> amount,
                      orderId |-> orderId, before |-> wallet]
        /\ UNCHANGED <<now, withdrawals, orders, users, walletTransactions>>
        /\ UNCHANGED concVars
        /\ UNCHANGED forecastVars
        /\ UNCHANGED payVars
        /\ UNCHANGED catVars

InitLedger ==
    /\ now \in Ticks
    /\ wallet \in WalletsAt(now)
    /\ canteenTransactions \in {<< >>, << WithdrawalEntry(1) >>}
    /\ withdrawals = << >>
    /\ orders = << >>
    /\ users = << >>
    /\ walletTransactions = << >>
    /\ nOps = 0
    /\ lastOp = NoOp
    /\ version = NoVersions /\ txn = NoClients /\ start = NoStart
    /\ NoForecast
    /\ NoPayments /\ NoCategories

NextLedger ==
    \E oldStatus \in Statuses, newStatus \in Statuses,
       amount \in CallAmounts, orderId \in DisplayIds :
        applyTransition(oldStatus, newStatus, amount, orderId)

SpecLedger == InitLedger /\ [][NextLedger]_vars

\* ------------------------------------------------ the request handlers
OrderIds == {"o1", "o2"}
UserIds == {"u1", "u2"}
NoStatus == ""
NoPrepTime == 0

\* The JSON response of the last request.
Response(op, request, code, error) ==
    [op |-> op, code |-> code, error |-> error,
     refunded |-> (op = "PATCH" /\ code = 200 /\ request.status = "cancelled")]

\* A request that changes nothing but the response.
Rejected(op, request, code, error) ==
    /\ lastOp' = Response(op, request, code, error)
    /\ UNCHANGED <<now, wallet, canteenTransactions, withdrawals, orders, users,
                   walletTransactions>>

RefundEntry(orderData) ==
    [userId |-> orderData.userId, type |-> "refund", amount |-> orderData.total,
     orderId |-> orderData.orderId]

\* Faulty variant: the refund is taken from the customer.
refundUser_Debit(userDoc, total) ==
    [userDoc EXCEPT !.walletBalance = @ - total]

\* walletBalance: FieldValue.increment(total)
refundUser(userDoc, total) ==
    [userDoc EXCEPT !.walletBalance = @ + total]

\* Faulty variant: the guard against a second cancellation is missing.
alreadyCancelled_Unchecked(oldStatus) == FALSE

\* oldStatus === "cancelled"
alreadyCancelled(oldStatus) == oldStatus = "cancelled"

\* Faulty variant: with the customer's record gone, the ledger writes are kept
\* and the order and the refund are dropped.
PatchCancel_Partial(request, orderData) ==
    LET oldStatus == orderData.status
        w == updateCanteenWallet(wallet, oldStatus, "cancelled", orderData.total,
                                 orderData.orderId, now)
    IN  IF alreadyCancelled(oldStatus)
        THEN Rejected("PATCH", request, 500, "Order is already cancelled")
        ELSE IF ~users[orderData.userId].exists
        THEN /\ wallet' = ApplyWalletWrites(wallet, w.wallet)
             /\ canteenTransactions' = canteenTransactions \o w.txns
             /\ lastOp' = Response("PATCH", request, 500,
                                   "NOT_FOUND: no document to update")
             /\ UNCHANGED <<now, withdrawals, orders, users, walletTransactions>>
        ELSE /\ wallet' = ApplyWalletWrites(wallet, w.wallet)
             /\ canteenTransactions' = canteenTransactions \o w.txns
             /\ orders' = [orders EXCEPT ![request.orderId].status = "cancelled"]
             /\ users' = [users EXCEPT ![orderData.userId] =
                                           refundUser(@, orderData.total)]
             /\ walletTransactions' = Append(walletTransactions, RefundEntry(orderData))
             /\ lastOp' = Response("PATCH", request, 200, "")
             /\ UNCHANGED <<now, withdrawals>>

\* PATCH, status === "cancelled": the cancellation and refund block.
PatchCancel(request, orderData) ==
    LET oldStatus == orderData.status
        w == updateCanteenWallet(wallet, oldStatus, "cancelled", orderData.total,
                                 orderData.orderId, now)
    IN  IF alreadyCancelled(oldStatus)
        THEN Rejected("PATCH", request, 500, "Order is already cancelled")
        ELSE IF ~users[orderData.userId].exists
        THEN \* transaction.update on a missing document fails the commit
             Rejected("PATCH", request, 500, "NOT_FOUND: no document to update")
        ELSE /\ wallet' = ApplyWalletWrites(wallet, w.wallet)
             /\ canteenTransactions' = canteenTransactions \o w.txns
             /\ orders' = [orders EXCEPT ![request.orderId].status = "cancelled"]
             /\ users' = [users EXCEPT ![orderData.userId] =
                                           refundUser(@, orderData.total)]
             /\ walletTransactions' = Append(walletTransactions, RefundEntry(orderData))
             /\ lastOp' = Response("PATCH", request, 200, "")
             /\ UNCHANGED <<now, withdrawals>>

\* Faulty variant: a prep time without a status confirms an order in any status.
PatchNewStatus_PromoteAny(status, prepTime, oldStatus) ==
    IF prepTime # NoPrepTime /\ status = NoStatus
    THEN "confirmed"
    ELSE IF status # NoStatus THEN status ELSE oldStatus

\* The status the normal block settles on.
PatchNewStatus(status, prepTime, oldStatus) ==
    IF prepTime # NoPrepTime /\ status = NoStatus /\ oldStatus = "pending"
    THEN "confirmed"
    ELSE IF status # NoStatus THEN status ELSE oldStatus

\* updateData of the normal block, applied to the order document.
PatchUpdateOrder(orderData, status, prepTime, t) ==
    LET first == IF status # NoStatus THEN status ELSE orderData.status
        newStatus == PatchNewStatus(status, prepTime, orderData.status)
        d1 == IF first = "ready"
              THEN [orderData EXCEPT !.readyAt = Null, !.estimatedReadyAt = Null]
              ELSE orderData
        d2 == IF prepTime # NoPrepTime
              THEN [d1 EXCEPT !.prepTime = prepTime,
                              !.estimatedReadyAt = t + prepTime,
                              !.readyAt = t + prepTime]
              ELSE d1
    IN  IF newStatus # orderData.status
        THEN [d2 EXCEPT !.status = newStatus] ELSE d2

\* PATCH, any other status or none: status progression and prep time.
PatchNormal(request, orderData) ==
    LET oldStatus == orderData.status
        newStatus == PatchNewStatus(request.status, request.prepTime, oldStatus)
        w == IF newStatus # oldStatus
             THEN updateCanteenWallet(wallet, oldStatus, newStatus, orderData.total,
                                      orderData.orderId, now)
             ELSE NoWrites
    IN  /\ wallet' = ApplyWalletWrites(wallet, w.wallet)
        /\ canteenTransactions' = canteenTransactions \o w.txns
        /\ orders' = [orders EXCEPT ![request.orderId] =
                         PatchUpdateOrder(orderData, request.status,
                                          request.prepTime, now)]
        /\ lastOp' = Response("PATCH", request, 200, "")
        /\ UNCHANGED <<now, withdrawals, users, walletTransactions>>

\* The message of an error thrown by the store itself.
StorageError == "UNAVAILABLE"

\* PATCH /api/admin/orders. The transaction either runs its body and commits, or
\* the store fails it and the catch block answers 500.
PATCH(orderId, status, prepTime) ==
    LET request == [orderId |-> orderId, status |-> status, prepTime |-> prepTime]
    IN  /\ nOps < MaxOps
        /\ nOps' = nOps + 1
        /\ UNCHANGED concVars
        /\ UNCHANGED forecastVars
        /\ UNCHANGED payVars
        /\ UNCHANGED catVars
        /\ IF orderId = ""
           THEN Rejected("PATCH", request, 400, "Order ID required")
           ELSE \/ Rejected("PATCH", request, 500, StorageError)
                \/ IF orderId \notin DOMAIN orders
                   THEN Rejected("PATCH", request, 500, "Order not found")
                   ELSE IF status = "cancelled"
                   THEN PatchCancel(request, orders[orderId])
                   ELSE PatchNormal(request, orders[orderId])

\* Faulty variant: the withdrawal is taken out of escrow.
withdrawUpdates_Escrow(amount, t) ==
    [pendingAmount |-> Inc(-amount), lastUpdated |-> Val(t)]

\* The wallet update of a withdrawal.
withdrawUpdates(amount, t) ==
    [totalBalance |-> Inc(-amount), lastUpdated |-> Val(t)]

\* The document created in the withdrawals collection.
WithdrawalReceipt(amount) == [amount |-> amount, status |-> "completed"]

\* Faulty variant: only an empty wallet is refused.
insufficient_OnlyEmpty(currentBalance, amount) == currentBalance <= 0

\* currentBalance < amount
insufficient(currentBalance, amount) == currentBalance < amount

\* POST /api/admin/wallet/withdraw
Withdraw(amount) ==
    LET request == [amount |-> amount]
    IN  /\ nOps < MaxOps
        /\ nOps' = nOps + 1
        /\ UNCHANGED concVars
        /\ UNCHANGED forecastVars
        /\ UNCHANGED payVars
        /\ UNCHANGED catVars
        /\ IF amount <= 0
           THEN Rejected("withdraw", request, 400, "Invalid withdrawal amount")
           ELSE IF ~wallet.exists
           THEN Rejected("withdraw", request, 500, "Wallet not found")
           ELSE IF insufficient(wallet.totalBalance, amount)
           THEN Rejected("withdraw", request, 500,
                         "Insufficient balance for withdrawal")
           ELSE /\ wallet' = UpdateWallet(wallet, withdrawUpdates(amount, now))
                /\ canteenTransactions' =
                       Append(canteenTransactions, WithdrawalEntry(amount))
                /\ withdrawals' = Append(withdrawals, WithdrawalReceipt(amount))
                /\ lastOp' = Response("withdraw", request, 200, "")
                /\ UNCHANGED <<now, orders, users, walletTransactions>>

\* Time passes between requests.
Tick ==
    /\ now < MaxNow
    /\ now' = now + 1
    /\ UNCHANGED <<wallet, canteenTransactions, withdrawals, orders, users,
                   walletTransactions, nOps, lastOp>>
    /\ UNCHANGED concVars
    /\ UNCHANGED forecastVars
    /\ UNCHANGED payVars
    /\ UNCHANGED catVars

NewOrder(total, userId, displayId) ==
    [status |-> "pending", total |-> total, userId |-> userId, orderId |-> displayId,
     prepTime |-> Null, readyAt |-> Null, estimatedReadyAt |-> Null]

\* No wallet yet, every order pending with a positive total.
Init ==
    /\ now = 0
    /\ wallet = NoWallet
    /\ canteenTransactions = << >>
    /\ withdrawals = << >>
    /\ orders = [o \in OrderIds |->
                    IF o = "o1" THEN NewOrder(1, "u1", "A1")
                    ELSE NewOrder(MaxAmount, "u2", "B2")]
    /\ \E e \in BOOLEAN :
           users = [u \in UserIds |->
                       [exists |-> (u = "u1" \/ e), walletBalance |-> 0]]
    /\ walletTransactions = << >>
    /\ nOps = 0
    /\ lastOp = NoOp
    /\ version = NoVersions /\ txn = NoClients /\ start = NoStart
    /\ NoForecast
    /\ NoPayments /\ NoCategories

Next ==
    \/ \E orderId \in OrderIds \cup {"", "o9"}, status \in Statuses \cup {NoStatus},
          prepTime \in {NoPrepTime, 1} :
           PATCH(orderId, status, prepTime)
    \/ \E amount \in 0..MaxAmount : Withdraw(amount)
    \/ Tick

Spec == Init /\ [][Next]_vars

\* ------------------------------------------------ one request alone
\* Any store the handlers can have left behind, and one request left to handle:
\* order o1 in any status, its customer record present or gone, order o2 still
\* pending.
InitRequest ==
    /\ now \in Ticks
    /\ wallet \in WalletsAt(now)
    /\ canteenTransactions \in {<< >>, << WithdrawalEntry(1) >>}
    /\ withdrawals = << >>
    /\ \E status \in Statuses :
           orders = [o \in OrderIds |->
                        IF o = "o1"
                        THEN [NewOrder(1, "u1", "A1") EXCEPT !.status = status]
                        ELSE NewOrder(MaxAmount, "u2", "B2")]
    /\ \E e \in BOOLEAN :
           users = [u \in UserIds |->
                       [exists |-> (u = "u2" \/ e), walletBalance |-> 0]]
    /\ walletTransactions = << >>
    /\ nOps = MaxOps - 1
    /\ lastOp = NoOp
    /\ version = NoVersions /\ txn = NoClients /\ start = NoStart
    /\ NoForecast
    /\ NoPayments /\ NoCategories

NextRequest ==
    \/ \E orderId \in OrderIds \cup {"", "o9"}, status \in Statuses \cup {NoStatus},
          prepTime \in {NoPrepTime, 1} :
           PATCH(orderId, status, prepTime)
    \/ \E amount \in 0..MaxAmount : Withdraw(amount)

SpecRequest == InitRequest /\ [][NextRequest]_vars

\* ------------------------------------------------ concurrent clients
Clients == {"c1", "c2"}
WalletDoc == "wallet"

\* The documents of the store, as one value.
CurrentStore ==
    [wallet |-> wallet, canteenTransactions |-> canteenTransactions,
     withdrawals |-> withdrawals, orders |-> orders, users |-> users,
     walletTransactions |-> walletTransactions]

PatchRequest(orderId, status, prepTime) ==
    [op |-> "PATCH", orderId |-> orderId, status |-> status,
     prepTime |-> prepTime, amount |-> 0]

WithdrawRequest(amount) ==
    [op |-> "withdraw", orderId |-> "", status |-> NoStatus,
     prepTime |-> NoPrepTime, amount |-> amount]

\* The requests a client can send: a status for an order, a prep time alone
\* for an order, or a withdrawal.
ConcRequests ==
    {PatchRequest(o, status, NoPrepTime) : o \in OrderIds, status \in Statuses}
    \cup {PatchRequest(o, NoStatus, 1) : o \in OrderIds}
    \cup {WithdrawRequest(amount) : amount \in 1..MaxAmount}

\* What a transaction body leaves to commit: the queued writes, or the error
\* it threw.
Thrown(error) ==
    [error |-> error, wallet |-> << >>, txns |-> << >>, order |-> << >>,
     refund |-> << >>, receipts |-> << >>]

\* The body of the PATCH transaction, on the order and the wallet it read.
patchBody(request, orderData, walletDoc, t) ==
    LET oldStatus == orderData.status
    IN  IF request.status = "cancelled"
        THEN IF alreadyCancelled(oldStatus)
             THEN Thrown("Order is already cancelled")
             ELSE LET w == updateCanteenWallet(walletDoc, oldStatus, "cancelled",
                                               orderData.total, orderData.orderId, t)
                  IN  [error |-> "", wallet |-> w.wallet, txns |-> w.txns,
                       order |-> << [orderData EXCEPT !.status = "cancelled"] >>,
                       refund |-> << RefundEntry(orderData) >>,
                       receipts |-> << >>]
        ELSE LET newStatus == PatchNewStatus(request.status, request.prepTime,
                                             oldStatus)
                 w == IF newStatus # oldStatus
                      THEN updateCanteenWallet(walletDoc, oldStatus, newStatus,
                                               orderData.total, orderData.orderId, t)
                      ELSE NoWrites
             IN  [error |-> "", wallet |-> w.wallet, txns |-> w.txns,
                  order |-> << PatchUpdateOrder(orderData, request.status,
                                                request.prepTime, t) >>,
                  refund |-> << >>, receipts |-> << >>]

\* The body of the withdrawal transaction, on the wallet it read.
withdrawBody(request, walletDoc, t) ==
    IF ~walletDoc.exists THEN Thrown("Wallet not found")
    ELSE IF insufficient(walletDoc.totalBalance, request.amount)
    THEN Thrown("Insufficient balance for withdrawal")
    ELSE [error |-> "",
          wallet |-> << [op |-> "update",
                         data |-> withdrawUpdates(request.amount, t)] >>,
          txns |-> << WithdrawalEntry(request.amount) >>,
          order |-> << >>, refund |-> << >>,
          receipts |-> << WithdrawalReceipt(request.amount) >>]

Body(request, orderData, walletDoc, t) ==
    IF request.op = "PATCH" THEN patchBody(request, orderData, walletDoc, t)
    ELSE withdrawBody(request, walletDoc, t)

\* The PATCH body reaches the wallet read of updateCanteenWallet.
NeedsWallet(request, orderData) ==
    LET oldStatus == orderData.status
        newStatus == IF request.status = "cancelled" THEN "cancelled"
                     ELSE PatchNewStatus(request.status, request.prepTime, oldStatus)
    IN  /\ ~(request.status = "cancelled" /\ alreadyCancelled(oldStatus))
        /\ newStatus # oldStatus
        /\ ~isNoOp(oldStatus, newStatus, orderData.total)

\* The update of a customer document that does not exist fails the commit.
CommitFails(store, body) ==
    body.refund # << >> /\ ~store.users[body.refund[1].userId].exists

\* The store after the queued writes are applied, in program order.
Committed(store, request, body) ==
    [wallet |-> ApplyWalletWrites(store.wallet, body.wallet),
     canteenTransactions |-> store.canteenTransactions \o body.txns,
     withdrawals |-> store.withdrawals \o body.receipts,
     orders |-> IF body.order = << >> THEN store.orders
                ELSE [store.orders EXCEPT ![request.orderId] = body.order[1]],
     users |-> IF body.refund = << >> THEN store.users
               ELSE [store.users EXCEPT ![body.refund[1].userId] =
                                            refundUser(@, body.refund[1].amount)],
     walletTransactions |-> store.walletTransactions \o body.refund]

NoOrderDoc == NewOrder(0, "", "")
NoResponse == [code |-> 0, error |-> ""]

\* The first transaction.get of a handler run: the order for PATCH, the wallet
\* for a withdrawal.
FirstRead(request, attempt) ==
    IF request.op = "PATCH"
    THEN [pc |-> "afterOrder", request |-> request, attempt |-> attempt,
          order |-> orders[request.orderId],
          orderVer |-> version[request.orderId],
          walletDoc |-> NoWallet, walletVer |-> 0, response |-> NoResponse]
    ELSE [pc |-> "afterWallet", request |-> request, attempt |-> attempt,
          order |-> NoOrderDoc, orderVer |-> 0,
          walletDoc |-> wallet, walletVer |-> version[WalletDoc],
          response |-> NoResponse]

StoreVars == <<wallet, canteenTransactions, withdrawals, orders, users,
               walletTransactions>>

\* A client sends its request and the handler makes its first read.
Start(c, request) ==
    /\ txn[c].pc = "idle"
    /\ txn' = [txn EXCEPT ![c] = FirstRead(request, 1)]
    /\ UNCHANGED <<now, nOps, lastOp, version, start>>
    /\ UNCHANGED forecastVars
    /\ UNCHANGED payVars
    /\ UNCHANGED catVars
    /\ UNCHANGED StoreVars

\* The store runs the handler again after a conflict.
Restart(c) ==
    /\ txn[c].pc = "retry"
    /\ txn' = [txn EXCEPT ![c] = FirstRead(txn[c].request, txn[c].attempt + 1)]
    /\ UNCHANGED <<now, nOps, lastOp, version, start>>
    /\ UNCHANGED forecastVars
    /\ UNCHANGED payVars
    /\ UNCHANGED catVars
    /\ UNCHANGED StoreVars

\* transaction.get(walletRef) in updateCanteenWallet.
ReadWallet(c) ==
    /\ txn[c].pc = "afterOrder"
    /\ NeedsWallet(txn[c].request, txn[c].order)
    /\ txn' = [txn EXCEPT ![c].pc = "afterWallet",
                          ![c].walletDoc = wallet,
                          ![c].walletVer = version[WalletDoc]]
    /\ UNCHANGED <<now, nOps, lastOp, version, start>>
    /\ UNCHANGED forecastVars
    /\ UNCHANGED payVars
    /\ UNCHANGED catVars
    /\ UNCHANGED StoreVars

\* Faulty variant: the PATCH transaction is not checked against writes to the
\* wallet it read.
patchReads_NoWallet(t) == {t.request.orderId}

\* The documents a PATCH transaction has read with transaction.get.
patchReads(t) ==
    {t.request.orderId} \cup (IF t.pc = "afterWallet" THEN {WalletDoc} ELSE {})

\* Faulty variant: the withdrawal reads the wallet outside its transaction.
withdrawReads_None(t) == {}

\* The document a withdrawal transaction has read with transaction.get.
withdrawReads(t) == {WalletDoc}

ReadSet(t) == IF t.request.op = "PATCH" THEN patchReads(t) ELSE withdrawReads(t)

ReadVersion(t, doc) == IF doc = WalletDoc THEN t.walletVer ELSE t.orderVer

\* Faulty variant: the store commits without checking the reads.
Validated_Unchecked(c) == TRUE

\* No document the transaction read has been written since it was read.
Validated(c) ==
    \A doc \in ReadSet(txn[c]) : version[doc] = ReadVersion(txn[c], doc)

\* The documents a committed body writes and the store versions.
Written(request, body) ==
    (IF body.wallet # << >> THEN {WalletDoc} ELSE {})
    \cup (IF body.order # << >> THEN {request.orderId} ELSE {})

Finish(c, code, error) ==
    txn' = [txn EXCEPT ![c].pc = "done",
                       ![c].response = [code |-> code, error |-> error]]

\* The end of the transaction function: a thrown error rolls back, a conflict
\* sends the handler back to its start, and otherwise the queued writes are
\* applied together.
Commit(c) ==
    LET t == txn[c]
        body == Body(t.request, t.order, t.walletDoc, now)
        after == Committed(CurrentStore, t.request, body)
    IN  /\ \/ t.pc = "afterWallet"
           \/ t.pc = "afterOrder" /\ ~NeedsWallet(t.request, t.order)
        /\ UNCHANGED <<now, nOps, lastOp, start>>
        /\ UNCHANGED forecastVars
        /\ UNCHANGED payVars
        /\ UNCHANGED catVars
        /\ IF body.error # ""
           THEN /\ Finish(c, 500, body.error)
                /\ UNCHANGED version /\ UNCHANGED StoreVars
           ELSE IF ~Validated(c)
           THEN /\ txn' = [txn EXCEPT ![c].pc = "retry"]
                /\ UNCHANGED version /\ UNCHANGED StoreVars
           ELSE IF CommitFails(CurrentStore, body)
           THEN /\ Finish(c, 500, "NOT_FOUND: no document to update")
                /\ UNCHANGED version /\ UNCHANGED StoreVars
           ELSE /\ Finish(c, 200, "")
                /\ version' = [doc \in DOMAIN version |->
                                  IF doc \in Written(t.request, body)
                                  THEN version[doc] + 1 ELSE version[doc]]
                /\ wallet' = after.wallet
                /\ canteenTransactions' = after.canteenTransactions
                /\ withdrawals' = after.withdrawals
                /\ orders' = after.orders
                /\ users' = after.users
                /\ walletTransactions' = after.walletTransactions

\* The wallets the clients can find: none, or one with MaxBal settled and
\* MaxBal in escrow, last written on day 0.
ConcWallets ==
    {NoWallet,
     [exists |-> TRUE, totalBalance |-> MaxBal, pendingAmount |-> MaxBal,
      todayCollection |-> 0, todayDate |-> 0, lastUpdated |-> 0]}

Idle ==
    [pc |-> "idle", request |-> WithdrawRequest(0), attempt |-> 0,
     order |-> NoOrderDoc, orderVer |-> 0, walletDoc |-> NoWallet,
     walletVer |-> 0, response |-> NoResponse]

\* Two idle clients, on the first or the last tick, order o1 in any status.
InitConc ==
    /\ now \in {0, MaxNow}
    /\ wallet \in ConcWallets
    /\ canteenTransactions = << >>
    /\ withdrawals = << >>
    /\ \E s1 \in Statuses, s2 \in {"pending", "completed"} :
           orders = [o \in OrderIds |->
                        IF o = "o1"
                        THEN [NewOrder(1, "u1", "A1") EXCEPT !.status = s1]
                        ELSE [NewOrder(MaxAmount, "u2", "B2") EXCEPT !.status = s2]]
    /\ users = [u \in UserIds |-> [exists |-> TRUE, walletBalance |-> 0]]
    /\ walletTransactions = << >>
    /\ nOps = 0
    /\ lastOp = NoOp
    /\ version = [doc \in OrderIds \cup {WalletDoc} |-> 0]
    /\ txn = [c \in Clients |-> Idle]
    /\ start = CurrentStore
    /\ NoForecast
    /\ NoPayments /\ NoCategories

NextConc ==
    \/ \E c \in Clients, request \in ConcRequests : Start(c, request)
    \/ \E c \in Clients : ReadWallet(c)
    \/ \E c \in Clients : Commit(c)
    \/ \E c \in Clients : Restart(c)

SpecConc == InitConc /\ [][NextConc]_vars

\* One request handled alone on a store: what a serial execution does.
Exec(store, request, t) ==
    LET orderData == IF request.op = "PATCH" THEN store.orders[request.orderId]
                     ELSE NoOrderDoc
        body == Body(request, orderData, store.wallet, t)
    IN  IF body.error # "" \/ CommitFails(store, body) THEN store
        ELSE Committed(store, request, body)

\* ------------------------------------------------ the demand forecast
\* Instants are counted in half hours from a Sunday 00:00 UTC, so that the
\* UTC+5:30 offset is a whole number.
ALL_DAYS == <<"Mon", "Tue", "Wed", "Thu", "Fri", "Sat", "Sun">>
WEEKDAYS == <<"Mon", "Tue", "Wed", "Thu", "Fri">>
DAY_MAP == <<"Sun", "Mon", "Tue", "Wed", "Thu", "Fri", "Sat">>   \* by getUTCDay() + 1
IST_OFFSET_MS == 11
DayMs == 48
HorizonDays == 7

\* Faulty variant: the calendar day and weekday at UTC.
getISTDate_UTC(date) ==
    LET dayNo == date \div DayMs
    IN  [dateStr |-> dayNo, dayOfWeek |-> DAY_MAP[(dayNo % 7) + 1],
         dayIndex |-> dayNo % 7]

\* getISTDate(date): the calendar day and weekday at UTC+5:30.
getISTDate(date) ==
    LET dayNo == (date + IST_OFFSET_MS) \div DayMs
    IN  [dateStr |-> dayNo, dayOfWeek |-> DAY_MAP[(dayNo % 7) + 1],
         dayIndex |-> dayNo % 7]

\* A customDays field: an array of day tags, or something else (absent).
DayArray(days) == [isArray |-> TRUE, days |-> days]
NotArray == [isArray |-> FALSE, days |-> << >>]

\* Faulty variant: an unknown or absent frequency falls back to every day.
getScheduledDays_DailyFallback(frequency, customDays) ==
    IF frequency = "weekdays" THEN WEEKDAYS
    ELSE IF frequency = "custom" /\ customDays.isArray THEN customDays.days
    ELSE ALL_DAYS

\* getScheduledDays(frequency, customDays)
getScheduledDays(frequency, customDays) ==
    IF frequency = "daily" THEN ALL_DAYS
    ELSE IF frequency = "weekdays" THEN WEEKDAYS
    ELSE IF frequency = "custom" /\ customDays.isArray THEN customDays.days
    ELSE << >>

\* The ids of the two collections, in document order.
AutoOrderIds == <<"a1", "a2">>
MenuIds == <<"i1", "i2">>

\* The names a menu item can have, in localeCompare order.
Alphabet == <<"Chai", "Dosa", "Unknown">>

IndexOf(seq, x) == CHOOSE i \in DOMAIN seq : seq[i] = x
NameRank == [n \in {Alphabet[k] : k \in DOMAIN Alphabet} |-> IndexOf(Alphabet, n)]
DayRank == [d \in {ALL_DAYS[k] : k \in DOMAIN ALL_DAYS} |-> IndexOf(ALL_DAYS, d)]

\* a.localeCompare(b), by sign and size of the distance in the alphabet.
localeCompare(a, b) == NameRank[a] - NameRank[b]

\* Array.prototype.sort(cmp): the stable sort of seq by a consistent
\* comparator, given as cmp[j, i], its value on the elements at j and i.
SortBy(seq, cmp) ==
    LET pos == [i \in DOMAIN seq |->
                   1 + Cardinality({j \in DOMAIN seq :
                                      \/ cmp[j, i] < 0
                                      \/ (cmp[j, i] = 0 /\ j < i)})]
    IN  [k \in DOMAIN seq |-> seq[CHOOSE i \in DOMAIN seq : pos[i] = k]]

\* menuMap: one entry per menu document, in document order.
menuMap(menuDocs) ==
    LET ids == SelectSeq(MenuIds, LAMBDA id : menuDocs[id].exists)
    IN  [k \in DOMAIN ids |->
            [id |-> ids[k],
             name |-> IF menuDocs[ids[k]].name = "" THEN "Unknown"
                      ELSE menuDocs[ids[k]].name,
             stock |-> IF menuDocs[ids[k]].quantity = Null THEN 0
                       ELSE menuDocs[ids[k]].quantity]]

menuHas(menu, itemId) == \E k \in DOMAIN menu : menu[k].id = itemId
menuGet(menu, itemId) == menu[CHOOSE k \in DOMAIN menu : menu[k].id = itemId]

\* d.quantity || 1
orderQuantity(d) == IF d.quantity = 0 THEN 1 ELSE d.quantity

\* The enriched list of the active auto-orders.
enrichAutoOrders(orderDocs, menu) ==
    LET ids == SelectSeq(AutoOrderIds, LAMBDA id : orderDocs[id].status = "active")
    IN  [k \in DOMAIN ids |->
            LET d == orderDocs[ids[k]]
            IN  [id |-> ids[k],
                 itemId |-> d.itemId,
                 itemName |-> IF d.itemName # "" THEN d.itemName
                              ELSE IF menuHas(menu, d.itemId)
                              THEN menuGet(menu, d.itemId).name
                              ELSE "Unknown",
                 quantity |-> orderQuantity(d),
                 frequency |-> IF d.frequency = "" THEN "daily" ELSE d.frequency,
                 customDays |-> d.customDays,
                 scheduledDays |-> getScheduledDays(d.frequency, d.customDays),
                 status |-> d.status]]

\* demandMap.get(`${itemId}::${day}`): the place of the record, 0 if none.
demandIndex(demandMap, itemId, day) ==
    IF \E i \in DOMAIN demandMap :
           demandMap[i].itemId = itemId /\ demandMap[i].day = day
    THEN CHOOSE i \in DOMAIN demandMap :
           demandMap[i].itemId = itemId /\ demandMap[i].day = day
    ELSE 0

\* Faulty variant: a later auto-order replaces the record of an earlier one.
addDemand_Overwrite(demandMap, order, day) ==
    LET i == demandIndex(demandMap, order.itemId, day)
    IN  IF i # 0
        THEN [demandMap EXCEPT ![i].totalQuantity = order.quantity]
        ELSE Append(demandMap,
                    [itemId |-> order.itemId, itemName |-> order.itemName,
                     day |-> day, totalQuantity |-> order.quantity])

\* One round of the inner loop of step 4: the order's quantity is added to the
\* record of (item, day), which is created if there is none.
addDemand(demandMap, order, day) ==
    LET i == demandIndex(demandMap, order.itemId, day)
    IN  IF i # 0
        THEN [demandMap EXCEPT ![i].totalQuantity = @ + order.quantity]
        ELSE Append(demandMap,
                    [itemId |-> order.itemId, itemName |-> order.itemName,
                     day |-> day, totalQuantity |-> order.quantity])

RECURSIVE addDays(_, _, _)
\* for (const day of order.scheduledDays)
addDays(demandMap, order, days) ==
    IF days = << >> THEN demandMap
    ELSE addDays(addDemand(demandMap, order, Head(days)), order, Tail(days))

RECURSIVE buildDemandMap(_, _)
\* for (const order of autoOrders): demandMap, in insertion order.
buildDemandMap(demandMap, orderList) ==
    IF orderList = << >> THEN demandMap
    ELSE buildDemandMap(addDays(demandMap, Head(orderList),
                                Head(orderList).scheduledDays),
                        Tail(orderList))

\* The comparator of aggregateDemand: item name, then weekday from Monday.
cmpDemand(a, b) ==
    LET byName == localeCompare(a.itemName, b.itemName)
    IN  IF byName # 0 THEN byName ELSE DayRank[a.day] - DayRank[b.day]

Max(a, b) == IF a >= b THEN a ELSE b

\* Faulty variant: the summary adds the days up.
addDailyTotal_Sum(dailyTotalMap, entry) ==
    IF \E i \in DOMAIN dailyTotalMap : dailyTotalMap[i].itemId = entry.itemId
    THEN LET i == CHOOSE i \in DOMAIN dailyTotalMap :
                     dailyTotalMap[i].itemId = entry.itemId
         IN  [dailyTotalMap EXCEPT
                 ![i].totalDaily = @ + entry.totalQuantity]
    ELSE Append(dailyTotalMap,
                [itemId |-> entry.itemId, itemName |-> entry.itemName,
                 totalDaily |-> entry.totalQuantity])

\* One round of step 5: the item's entry keeps the larger of its value and
\* the record's quantity.
addDailyTotal(dailyTotalMap, entry) ==
    IF \E i \in DOMAIN dailyTotalMap : dailyTotalMap[i].itemId = entry.itemId
    THEN LET i == CHOOSE i \in DOMAIN dailyTotalMap :
                     dailyTotalMap[i].itemId = entry.itemId
         IN  [dailyTotalMap EXCEPT
                 ![i].totalDaily = Max(@, entry.totalQuantity)]
    ELSE Append(dailyTotalMap,
                [itemId |-> entry.itemId, itemName |-> entry.itemName,
                 totalDaily |-> entry.totalQuantity])

RECURSIVE buildDailyTotalMap(_, _)
\* for (const entry of aggregateDemand)
buildDailyTotalMap(dailyTotalMap, entries) ==
    IF entries = << >> THEN dailyTotalMap
    ELSE buildDailyTotalMap(addDailyTotal(dailyTotalMap, Head(entries)),
                            Tail(entries))

\* demandEntry?.totalQuantity || 0
todayDemandOf(demandMap, itemId, dayOfWeek) ==
    LET i == demandIndex(demandMap, itemId, dayOfWeek)
    IN  IF i = 0 THEN 0 ELSE demandMap[i].totalQuantity

\* Faulty variant: every menu item is listed every day.
skipItem_Never(todayDemand) == FALSE

\* if (todayDemand === 0) continue
skipItem(todayDemand) == todayDemand = 0

\* Faulty variant: the running sum starts again every day.
newCumulativeOf_NoCarry(prevCumulative, todayDemand) == todayDemand

\* prevCumulative + todayDemand
newCumulativeOf(prevCumulative, todayDemand) == prevCumulative + todayDemand

\* Faulty variant: the comparison is the wrong way round.
isRisk_Surplus(remaining) == remaining > 0

\* remaining < 0
isRisk(remaining) == remaining < 0

RECURSIVE walkMenu(_, _, _, _, _)
\* for (const [itemId, menuItem] of menuMap.entries()): the items of one day,
\* before sorting, and the tracker after the day.
walkMenu(menu, demandMap, dayOfWeek, tracker, dayItems) ==
    IF menu = << >> THEN [items |-> dayItems, tracker |-> tracker]
    ELSE LET menuItem == Head(menu)
             todayDemand == todayDemandOf(demandMap, menuItem.id, dayOfWeek)
             newCumulative == newCumulativeOf(tracker[menuItem.id], todayDemand)
             remaining == menuItem.stock - newCumulative
         IN  IF skipItem(todayDemand)
             THEN walkMenu(Tail(menu), demandMap, dayOfWeek, tracker, dayItems)
             ELSE walkMenu(Tail(menu), demandMap, dayOfWeek,
                           [tracker EXCEPT ![menuItem.id] = newCumulative],
                           Append(dayItems,
                                  [itemId |-> menuItem.id,
                                   itemName |-> menuItem.name,
                                   demand |-> todayDemand,
                                   currentStock |-> menuItem.stock,
                                   cumulativeDemand |-> newCumulative,
                                   remaining |-> remaining,
                                   risk |-> isRisk(remaining)]))

\* Faulty variant: the items of a day are sorted by name alone.
cmpDayItems_NameOnly(a, b) == localeCompare(a.itemName, b.itemName)

\* The comparator of dayItems: risky items first, then by name.
cmpDayItems(a, b) ==
    IF a.risk # b.risk THEN (IF a.risk THEN -1 ELSE 1)
    ELSE localeCompare(a.itemName, b.itemName)

RECURSIVE walkDays(_, _, _, _, _, _)
\* for (let offset = 0; offset < 7; offset++)
walkDays(offset, t, menu, demandMap, tracker, forecast) ==
    IF offset >= HorizonDays THEN forecast
    ELSE LET day == getISTDate(t + offset * DayMs)
             w == walkMenu(menu, demandMap, day.dayOfWeek, tracker, << >>)
         IN  walkDays(offset + 1, t, menu, demandMap, w.tracker,
                      Append(forecast,
                             [date |-> day.dateStr, dayName |-> day.dayOfWeek,
                              items |-> SortBy(w.items,
                                               [a, b \in DOMAIN w.items |->
                                                   cmpDayItems(w.items[a],
                                                               w.items[b])])]))

\* Faulty variant: every flagged entry is counted.
countAtRisk_Entries(forecast) ==
    Cardinality({<<d, i>> \in (DOMAIN forecast) \X (1..Len(MenuIds)) :
                    i \in DOMAIN forecast[d].items /\ forecast[d].items[i].risk})

\* riskItemIds.size
countAtRisk(forecast) ==
    Cardinality({forecast[d].items[i].itemId :
                    <<d, i>> \in {<<d, i>> \in (DOMAIN forecast) \X (1..Len(MenuIds)) :
                                     i \in DOMAIN forecast[d].items
                                     /\ forecast[d].items[i].risk}})

\* The body of the 200 response, given the documents read and the instant.
computeForecast(orderDocs, menuDocs, t) ==
    LET menu == menuMap(menuDocs)
        orderList == enrichAutoOrders(orderDocs, menu)
        demandMap == buildDemandMap(<< >>, orderList)
        aggregateDemand ==
            SortBy(demandMap,
                   [a, b \in DOMAIN demandMap |->
                       cmpDemand(demandMap[a], demandMap[b])])
        dailyTotalMap == buildDailyTotalMap(<< >>, aggregateDemand)
        forecast == walkDays(0, t, menu, demandMap,
                             [id \in {MenuIds[k] : k \in DOMAIN MenuIds} |-> 0],
                             << >>)
    IN  [status |-> 200,
         autoOrders |-> orderList,
         aggregateDemand |-> aggregateDemand,
         forecast |-> forecast,
         summary |-> [totalActiveOrders |-> Len(orderList),
                      itemsAtRisk |-> countAtRisk(forecast),
                      dailyDemandByItem |->
                          SortBy(dailyTotalMap,
                                 [a, b \in DOMAIN dailyTotalMap |->
                                     dailyTotalMap[b].totalDaily
                                         - dailyTotalMap[a].totalDaily])]]

\* GET /api/admin/auto-orders-forecast: the report, or 500 when a read fails.
GET ==
    /\ report = NoReport
    /\ \/ report' = computeForecast(autoOrders, menuItems, forecastAt)
       \/ report' = [status |-> 500, error |-> "Failed to compute forecast"]
    /\ UNCHANGED <<autoOrders, menuItems, forecastAt>>
    /\ UNCHANGED <<now, nOps, lastOp>>
    /\ UNCHANGED StoreVars
    /\ UNCHANGED concVars
    /\ UNCHANGED payVars
    /\ UNCHANGED catVars

MaxQuantity == 2     \* largest quantity of an auto-order
MaxStock == 2        \* largest stock of a menu item

\* frequency and customDays as stored: the three known frequencies, an unknown
\* one, none, custom days with a repeated tag, and custom without an array.
Schedules ==
    {[frequency |-> "daily", customDays |-> NotArray],
     [frequency |-> "weekdays", customDays |-> NotArray],
     [frequency |-> "custom", customDays |-> DayArray(<<"Sat">>)],
     [frequency |-> "custom", customDays |-> DayArray(<<"Sun", "Sun">>)],
     [frequency |-> "custom", customDays |-> NotArray],
     [frequency |-> "monthly", customDays |-> DayArray(<<"Sat">>)],
     [frequency |-> "", customDays |-> NotArray]}

Paused ==
    [status |-> "paused", itemId |-> "i1", itemName |-> "", quantity |-> 1,
     frequency |-> "daily", customDays |-> NotArray]

\* The auto-order documents: quantity 0 stands for a missing or zero quantity.
AutoOrderDocs ==
    {Paused} \cup
    {[status |-> "active", itemId |-> itemId, itemName |-> "",
      quantity |-> quantity, frequency |-> schedule.frequency,
      customDays |-> schedule.customDays] :
        itemId \in {"i1", "i2"}, quantity \in {0, 1, MaxQuantity},
        schedule \in Schedules}

NoMenuItem == [exists |-> FALSE, name |-> "", quantity |-> Null]

\* The menus: i1 with a name or none and any stock (or none), i2 missing or
\* fully stocked and first in the alphabet.
Menus ==
    {[id \in {"i1", "i2"} |-> IF id = "i1" THEN d1 ELSE d2] :
        d1 \in [exists : {TRUE}, name : {"Dosa", ""},
                quantity : {Null} \cup 0..MaxStock],
        d2 \in {NoMenuItem, [exists |-> TRUE, name |-> "Chai", quantity |-> MaxStock]}}

\* The last half hour of a day at UTC+5:30 and the first of the next.
Instants == {DayMs - IST_OFFSET_MS - 1, DayMs - IST_OFFSET_MS}

InitForecast ==
    /\ autoOrders \in [{"a1", "a2"} -> AutoOrderDocs]
    /\ menuItems \in Menus
    /\ forecastAt \in Instants
    /\ report = NoReport
    /\ now = 0
    /\ wallet = NoWallet
    /\ canteenTransactions = << >>
    /\ withdrawals = << >>
    /\ orders = << >>
    /\ users = << >>
    /\ walletTransactions = << >>
    /\ nOps = 0
    /\ lastOp = NoOp
    /\ version = NoVersions /\ txn = NoClients /\ start = NoStart
    /\ NoPayments /\ NoCategories

NextForecast == GET

SpecForecast == InitForecast /\ [][NextForecast]_vars

\* ------------------------------------------------ razorpay top-ups
\* Amounts of a create-order request are counted in thousandths of a rupee.
MillsPerRupee == 1000
PaisePerRupee == 100
MIN_AMOUNT == 1
MAX_AMOUNT == 5000

\* Math.round(n / d) for n >= 0 and d > 0: the nearest integer, a half upward.
MathRound(n, d) == (2 * n + d) \div (2 * d)

\* parsedAmount >= MIN_AMOUNT && parsedAmount <= MAX_AMOUNT
amountAccepted(mills) ==
    /\ mills >= MIN_AMOUNT * MillsPerRupee
    /\ mills <= MAX_AMOUNT * MillsPerRupee

\* Math.round(parsedAmount * 100)
amountInPaise(mills) == MathRound(mills * PaisePerRupee, MillsPerRupee)

\* Math.round(orderAmount / 100)
amountInRupees(orderAmount) == MathRound(orderAmount, PaisePerRupee)

RzpOrderIds == <<"ord1", "ord2">>
PaymentIds == {"pay1", "pay2"}

\* The payment Razorpay captures for an order.
PaymentOf(orderId) == IF orderId = "ord1" THEN "pay1" ELSE "pay2"

\* HMAC-SHA256 of order_id + "|" + payment_id under the key secret, as the pair
\* it signs.
expectedSignature(orderId, paymentId) == <<orderId, paymentId>>
ForgedSignature == <<"", "">>
NoSignature == << >>

\* The signatures the checkout has handed out: one per order created.
IssuedSignatures ==
    {expectedSignature(RzpOrderIds[k], PaymentOf(RzpOrderIds[k])) :
        k \in {k \in DOMAIN RzpOrderIds : rzpOrders[RzpOrderIds[k]] > 0}}

NoPayment ==
    [exists |-> FALSE, razorpayOrderId |-> "", userId |-> "", amount |-> 0,
     amountPaise |-> 0]

\* The payments/<payment_id> document of the dedup record.
PaymentRecord(orderId, uid, rupees, orderAmount) ==
    [exists |-> TRUE, razorpayOrderId |-> orderId, userId |-> uid,
     amount |-> rupees, amountPaise |-> orderAmount]

\* The walletTransactions document of a top-up.
TopUpEntry(uid, rupees, paymentId, orderId) ==
    [userId |-> uid, type |-> "topup", amount |-> rupees,
     razorpayPaymentId |-> paymentId, razorpayOrderId |-> orderId]

\* walletBalance: FieldValue.increment(amountInRupees)
creditUser(userDoc, rupees) == [userDoc EXCEPT !.walletBalance = @ + rupees]

\* POST /api/razorpay/create-order: an order at Razorpay for the amount in paise.
CreateOrder(uid, mills) ==
    /\ \E k \in DOMAIN RzpOrderIds : rzpOrders[RzpOrderIds[k]] = 0
    /\ LET k == CHOOSE k \in DOMAIN RzpOrderIds :
                    /\ rzpOrders[RzpOrderIds[k]] = 0
                    /\ \A j \in 1..(k - 1) : rzpOrders[RzpOrderIds[j]] > 0
           request == [amount |-> mills]
       IN  IF uid = ""
           THEN /\ lastOp' = [op |-> "create-order", code |-> 401,
                              error |-> "Unauthorized"]
                /\ UNCHANGED rzpOrders
           ELSE IF ~amountAccepted(mills)
           THEN /\ lastOp' = [op |-> "create-order", code |-> 400,
                              error |-> "Amount must be between 1 and 5000"]
                /\ UNCHANGED rzpOrders
           ELSE \/ /\ lastOp' = [op |-> "create-order", code |-> 500,
                                 error |-> "Failed to create payment order"]
                   /\ UNCHANGED rzpOrders
                \/ /\ lastOp' = [op |-> "create-order", code |-> 200, error |-> ""]
                   /\ rzpOrders' = [rzpOrders EXCEPT ![RzpOrderIds[k]] =
                                                         amountInPaise(mills)]
    /\ UNCHANGED <<payments, verifying, version>>
    /\ UNCHANGED <<now, nOps, txn, start>>
    /\ UNCHANGED StoreVars
    /\ UNCHANGED forecastVars
    /\ UNCHANGED catVars

NotVerifying ==
    [pc |-> "idle", uid |-> "", orderId |-> "", paymentId |-> "",
     orderAmount |-> 0, attempt |-> 0, paymentVer |-> 0, userVer |-> 0,
     response |-> NoResponse]

\* The handler of client c answers.
Answer(c, code, error) ==
    verifying' = [verifying EXCEPT ![c].pc = "done",
                                   ![c].response = [code |-> code, error |-> error]]

VerifyFrame ==
    /\ UNCHANGED <<now, nOps, lastOp, txn, start, rzpOrders>>
    /\ UNCHANGED <<wallet, canteenTransactions, withdrawals, orders>>
    /\ UNCHANGED forecastVars
    /\ UNCHANGED catVars

\* POST /api/razorpay/verify up to the transaction: authentication, signature,
\* amount.
VerifyPOST(c, uid, orderId, paymentId, signature) ==
    LET request == [NotVerifying EXCEPT !.uid = uid, !.orderId = orderId,
                                        !.paymentId = paymentId, !.attempt = 1]
        answer(code, error) ==
            [request EXCEPT !.pc = "done",
                            !.response = [code |-> code, error |-> error]]
    IN  /\ verifying[c].pc = "idle"
        /\ VerifyFrame
        /\ UNCHANGED <<payments, users, walletTransactions, version>>
        /\ IF uid = ""
           THEN verifying' = [verifying EXCEPT ![c] = answer(401, "Unauthorized")]
           ELSE IF orderId = "" \/ paymentId = "" \/ signature = NoSignature
           THEN verifying' = [verifying EXCEPT ![c] =
                                 answer(400, "Missing payment details")]
           ELSE IF signature # expectedSignature(orderId, paymentId)
           THEN verifying' = [verifying EXCEPT ![c] =
                                 answer(400, "Invalid payment signature")]
           ELSE \/ verifying' = [verifying EXCEPT ![c] =
                                    answer(500, "Could not verify order amount")]
                \/ /\ rzpOrders[orderId] > 0
                   /\ LET orderAmount == rzpOrders[orderId]
                          rupees == amountInRupees(orderAmount)
                      IN  IF rupees < MIN_AMOUNT \/ rupees > MAX_AMOUNT
                          THEN verifying' = [verifying EXCEPT ![c] =
                                                answer(400, "Invalid amount")]
                          ELSE verifying' =
                                   [verifying EXCEPT ![c] =
                                       [request EXCEPT !.pc = "inTxn",
                                                       !.orderAmount = orderAmount]]

\* paymentDoc.exists
alreadyProcessed(paymentDoc) == paymentDoc.exists

\* transaction.get(paymentRef) and the dedup check.
VerifyReadPayment(c) ==
    LET v == verifying[c]
    IN  /\ v.pc = "inTxn"
        /\ VerifyFrame
        /\ UNCHANGED <<payments, users, walletTransactions, version>>
        /\ IF alreadyProcessed(payments[v.paymentId])
           THEN Answer(c, 500, "Payment already processed")
           ELSE verifying' = [verifying EXCEPT ![c].pc = "afterPayment",
                                               ![c].paymentVer = version[v.paymentId]]

\* transaction.get(userRef) and the check that the user exists.
VerifyReadUser(c) ==
    LET v == verifying[c]
    IN  /\ v.pc = "afterPayment"
        /\ VerifyFrame
        /\ UNCHANGED <<payments, users, walletTransactions, version>>
        /\ IF ~users[v.uid].exists
           THEN Answer(c, 500, "User not found")
           ELSE verifying' = [verifying EXCEPT ![c].pc = "afterUser",
                                               ![c].userVer = version[v.uid]]

\* Faulty variant: the store commits without checking the reads.
verifyValidated_Unchecked(v) == TRUE

\* Neither document the transaction read has been written since.
verifyValidated(v) ==
    version[v.paymentId] = v.paymentVer /\ version[v.uid] = v.userVer

\* The end of the transaction function: a conflict sends it back to its start,
\* a storage failure rolls it back, and otherwise the dedup record, the credit
\* and the log entry are written together.
VerifyCommit(c) ==
    LET v == verifying[c]
        rupees == amountInRupees(v.orderAmount)
    IN  /\ v.pc = "afterUser"
        /\ VerifyFrame
        /\ IF ~verifyValidated(v)
           THEN /\ verifying' = [verifying EXCEPT ![c].pc = "retry"]
                /\ UNCHANGED <<payments, users, walletTransactions, version>>
           ELSE \/ /\ Answer(c, 500, StorageError)
                   /\ UNCHANGED <<payments, users, walletTransactions, version>>
                \/ /\ Answer(c, 200, "")
                   /\ payments' = [payments EXCEPT ![v.paymentId] =
                                      PaymentRecord(v.orderId, v.uid, rupees,
                                                    v.orderAmount)]
                   /\ users' = [users EXCEPT ![v.uid] = creditUser(@, rupees)]
                   /\ walletTransactions' =
                          Append(walletTransactions,
                                 TopUpEntry(v.uid, rupees, v.paymentId, v.orderId))
                   /\ version' = [version EXCEPT ![v.paymentId] = @ + 1,
                                                 ![v.uid] = @ + 1]

\* The store runs the transaction function again after a conflict.
VerifyRestart(c) ==
    /\ verifying[c].pc = "retry"
    /\ verifying' = [verifying EXCEPT ![c].pc = "inTxn", ![c].attempt = @ + 1]
    /\ VerifyFrame
    /\ UNCHANGED <<payments, users, walletTransactions, version>>

\* The amounts a create-order request asks for, in thousandths of a rupee:
\* below the minimum, the minimum, a rupee and a half, just under two and a
\* half rupees, the maximum, above the maximum.
TopUpAmounts == {500, 1000, 1500, 2400, 5000000, 5000500}

\* No order at Razorpay, no payment verified, two idle clients; customer u2
\* has a record or not.
InitVerify ==
    /\ rzpOrders = [k \in {RzpOrderIds[j] : j \in DOMAIN RzpOrderIds} |-> 0]
    /\ payments = [p \in PaymentIds |-> NoPayment]
    /\ verifying = [c \in Clients |-> NotVerifying]
    /\ \E e \in BOOLEAN :
           users = [u \in UserIds |->
                       [exists |-> (u = "u1" \/ e), walletBalance |-> 0]]
    /\ walletTransactions = << >>
    /\ version = [doc \in PaymentIds \cup UserIds |-> 0]
    /\ now = 0
    /\ wallet = NoWallet
    /\ canteenTransactions = << >>
    /\ withdrawals = << >>
    /\ orders = << >>
    /\ nOps = 0
    /\ lastOp = NoOp
    /\ txn = NoClients /\ start = NoStart
    /\ NoForecast /\ NoCategories

NextVerify ==
    \/ \E uid \in UserIds \cup {""}, mills \in TopUpAmounts : CreateOrder(uid, mills)
    \/ \E c \in Clients, uid \in UserIds \cup {""},
          orderId \in {RzpOrderIds[j] : j \in DOMAIN RzpOrderIds} \cup {""},
          paymentId \in PaymentIds \cup {""},
          signature \in IssuedSignatures \cup {ForgedSignature, NoSignature} :
           VerifyPOST(c, uid, orderId, paymentId, signature)
    \/ \E c \in Clients : VerifyReadPayment(c)
    \/ \E c \in Clients : VerifyReadUser(c)
    \/ \E c \in Clients : VerifyCommit(c)
    \/ \E c \in Clients : VerifyRestart(c)

SpecVerify == InitVerify /\ [][NextVerify]_vars

\* ------------------------------------------------ menu categories
\* Names and slugs are sequences of characters.
UpperCase == {"T"}
LowerCase == {"t", "e", "a"}
WhiteSpace == {" "}
Hyphen == "-"

\* String.prototype.toLowerCase, character by character.
toLowerCase(s) == [k \in DOMAIN s |-> IF s[k] = "T" THEN "t" ELSE s[k]]

RECURSIVE trimStart(_)
trimStart(s) ==
    IF s # << >> /\ Head(s) \in WhiteSpace THEN trimStart(Tail(s)) ELSE s

RECURSIVE trimEnd(_)
trimEnd(s) ==
    IF s # << >> /\ s[Len(s)] \in WhiteSpace
    THEN trimEnd(SubSeq(s, 1, Len(s) - 1)) ELSE s

\* String.prototype.trim
trim(s) == trimEnd(trimStart(s))

\* .replace(/[^a-z0-9\s-]/g, "")
removeOthers(s) ==
    SelectSeq(s, LAMBDA ch : ch \in LowerCase \cup WhiteSpace \cup {Hyphen})

RECURSIVE replaceSpaces(_)
\* .replace(/\s+/g, "-")
replaceSpaces(s) ==
    IF s = << >> THEN << >>
    ELSE IF Head(s) \in WhiteSpace
    THEN <<Hyphen>> \o replaceSpaces(trimStart(s))
    ELSE <<Head(s)>> \o replaceSpaces(Tail(s))

RECURSIVE collapseHyphens(_)
\* .replace(/-+/g, "-")
collapseHyphens(s) ==
    IF s = << >> THEN << >>
    ELSE IF Head(s) = Hyphen /\ Tail(s) # << >> /\ Head(Tail(s)) = Hyphen
    THEN collapseHyphens(Tail(s))
    ELSE <<Head(s)>> \o collapseHyphens(Tail(s))

\* slugify(name)
slugify(name) ==
    collapseHyphens(replaceSpaces(removeOthers(trim(toLowerCase(name)))))

\* !name || !name.trim()
nameMissing(name) == name = << >> \/ trim(name) = << >>

MenuItemIds == {"m1", "m2"}
NoCategoryId == 0

\* A document of the categories collection; its id is its place in the
\* collection.
CategoryDoc(name, slug, order) == [name |-> name, slug |-> slug, order |-> order]

\* .where("slug", "==", slug): the ids of the categories with the slug.
categoriesWithSlug(slug) ==
    {id \in DOMAIN categories : categories[id].slug = slug}

\* (allCats.docs[0].data().order || 0) + 1 of the category with the largest
\* order, 0 without categories.
nextOrderOf(cats) ==
    IF cats = << >> THEN 0
    ELSE LET top == CHOOSE id \in DOMAIN cats :
                        \A other \in DOMAIN cats : cats[other].order <= cats[id].order
         IN  cats[top].order + 1

\* .where("category", "==", slug): the menu items of a category.
itemsInCategory(slug) == {m \in MenuItemIds : itemCategory[m] = slug}

NoCatRequest ==
    [pc |-> "idle", op |-> "", id |-> NoCategoryId, name |-> << >>, slug |-> << >>,
     oldSlug |-> << >>, nextOrder |-> 0, items |-> {}, response |-> NoResponse]

\* The handler of client c answers.
CatAnswer(c, code, error) ==
    catReq' = [catReq EXCEPT ![c].pc = "done",
                             ![c].response = [code |-> code, error |-> error]]

CatFrame ==
    /\ UNCHANGED <<now, nOps, lastOp>>
    /\ UNCHANGED StoreVars
    /\ UNCHANGED concVars
    /\ UNCHANGED forecastVars
    /\ UNCHANGED payVars

\* An await on the store throws and the catch block answers 500.
CatFails(c, error) ==
    /\ CatAnswer(c, 500, error)
    /\ UNCHANGED <<categories, itemCategory>>

\* POST /api/admin/categories up to the duplicate check.
CategoryPOST(c, name) ==
    LET slug == slugify(name)
        request == [NoCatRequest EXCEPT !.op = "POST", !.name = name, !.slug = slug]
    IN  /\ catReq[c].pc = "idle"
        /\ CatFrame
        /\ UNCHANGED <<categories, itemCategory>>
        /\ IF nameMissing(name)
           THEN catReq' = [catReq EXCEPT ![c] =
                              [request EXCEPT !.pc = "done",
                                              !.response = [code |-> 400,
                                                  error |-> "Category name is required"]]]
           ELSE \/ catReq' = [catReq EXCEPT ![c] =
                                 [request EXCEPT !.pc = "done",
                                                 !.response = [code |-> 500,
                                                     error |-> "Failed to create category"]]]
                \/ IF categoriesWithSlug(slug) # {}
                   THEN catReq' = [catReq EXCEPT ![c] =
                                      [request EXCEPT !.pc = "done",
                                                      !.response = [code |-> 409,
                                                          error |-> "A category with this name already exists"]]]
                   ELSE catReq' = [catReq EXCEPT ![c] =
                                      [request EXCEPT !.pc = "postChecked"]]

\* POST: the query for the next order position.
PostReadOrder(c) ==
    /\ catReq[c].pc = "postChecked"
    /\ CatFrame
    /\ \/ CatFails(c, "Failed to create category")
       \/ /\ catReq' = [catReq EXCEPT ![c].pc = "postOrdered",
                                      ![c].nextOrder = nextOrderOf(categories)]
          /\ UNCHANGED <<categories, itemCategory>>

\* POST: collection("categories").add(...)
PostAdd(c) ==
    /\ catReq[c].pc = "postOrdered"
    /\ CatFrame
    /\ \/ CatFails(c, "Failed to create category")
       \/ /\ categories' = Append(categories,
                                  CategoryDoc(trim(catReq[c].name), catReq[c].slug,
                                              catReq[c].nextOrder))
          /\ catReq' = [catReq EXCEPT ![c].pc = "done",
                                      ![c].id = Len(categories) + 1,
                                      ![c].response = [code |-> 200, error |-> ""]]
          /\ UNCHANGED itemCategory

\* existing.docs.some((doc) => doc.id !== id)
isDuplicate(slug, id) == \E other \in categoriesWithSlug(slug) : other # id

\* PUT /api/admin/categories up to the duplicate check.
CategoryPUT(c, id, name) ==
    LET newSlug == slugify(name)
        request == [NoCatRequest EXCEPT !.op = "PUT", !.id = id, !.name = name,
                                        !.slug = newSlug]
    IN  /\ catReq[c].pc = "idle"
        /\ CatFrame
        /\ UNCHANGED <<categories, itemCategory>>
        /\ IF id = NoCategoryId \/ nameMissing(name)
           THEN catReq' = [catReq EXCEPT ![c] =
                              [request EXCEPT !.pc = "done",
                                              !.response = [code |-> 400,
                                                  error |-> "Category ID and name are required"]]]
           ELSE \/ catReq' = [catReq EXCEPT ![c] =
                                 [request EXCEPT !.pc = "done",
                                                 !.response = [code |-> 500,
                                                     error |-> "Failed to update category"]]]
                \/ IF isDuplicate(newSlug, id)
                   THEN catReq' = [catReq EXCEPT ![c] =
                                      [request EXCEPT !.pc = "done",
                                                      !.response = [code |-> 409,
                                                          error |-> "A category with this name already exists"]]]
                   ELSE catReq' = [catReq EXCEPT ![c] =
                                      [request EXCEPT !.pc = "putChecked"]]

\* PUT: the read of the category for its old slug.
PutRead(c) ==
    /\ catReq[c].pc = "putChecked"
    /\ CatFrame
    /\ UNCHANGED <<categories, itemCategory>>
    /\ \/ CatAnswer(c, 500, "Failed to update category")
       \/ IF catReq[c].id \notin DOMAIN categories
          THEN CatAnswer(c, 404, "Category not found")
          ELSE catReq' = [catReq EXCEPT ![c].pc = "putRead",
                                        ![c].oldSlug = categories[catReq[c].id].slug]

\* PUT: the update of the category document, and the answer when the slug has
\* not changed.
PutUpdate(c) ==
    LET r == catReq[c]
    IN  /\ r.pc = "putRead"
        /\ CatFrame
        /\ \/ CatFails(c, "Failed to update category")
           \/ /\ categories' = [categories EXCEPT ![r.id].name = trim(r.name),
                                                  ![r.id].slug = r.slug]
              /\ UNCHANGED itemCategory
              /\ IF r.oldSlug # r.slug
                 THEN catReq' = [catReq EXCEPT ![c].pc = "putUpdated"]
                 ELSE CatAnswer(c, 200, "")

\* PUT: the query for the menu items with the old slug.
PutQuery(c) ==
    /\ catReq[c].pc = "putUpdated"
    /\ CatFrame
    /\ \/ CatFails(c, "Failed to update category")
       \/ /\ catReq' = [catReq EXCEPT ![c].pc = "putQueried",
                                      ![c].items = itemsInCategory(catReq[c].oldSlug)]
          /\ UNCHANGED <<categories, itemCategory>>

\* PUT: batch.commit() of the cascade, and the answer.
PutBatch(c) ==
    LET r == catReq[c]
    IN  /\ r.pc = "putQueried"
        /\ CatFrame
        /\ \/ CatFails(c, "Failed to update category")
           \/ /\ itemCategory' = [m \in MenuItemIds |->
                                     IF m \in r.items THEN r.slug ELSE itemCategory[m]]
              /\ CatAnswer(c, 200, "")
              /\ UNCHANGED categories

\* The names the clients send: Tea, tea!, "T -a", a blank, nothing, "!".
CategoryNames ==
    {<<"T", "e", "a">>, <<"t", "e", "a", "!">>, <<"T", " ", "-", "a">>,
     <<" ">>, << >>, <<"!">>}

\* The ids the clients send: none, the categories there can be, and one more.
CategoryIds == 0..2

\* One category, Tea, holding both menu items; two idle clients.
InitCategories ==
    /\ categories = << CategoryDoc(<<"T", "e", "a">>, <<"t", "e", "a">>, 0) >>
    /\ itemCategory = [m \in MenuItemIds |-> <<"t", "e", "a">>]
    /\ catReq = [c \in Clients |-> NoCatRequest]
    /\ now = 0
    /\ wallet = NoWallet
    /\ canteenTransactions = << >>
    /\ withdrawals = << >>
    /\ orders = << >>
    /\ users = << >>
    /\ walletTransactions = << >>
    /\ nOps = 0
    /\ lastOp = NoOp
    /\ version = NoVersions /\ txn = NoClients /\ start = NoStart
    /\ NoForecast /\ NoPayments

NextCategories ==
    \/ \E c \in Clients, name \in CategoryNames : CategoryPOST(c, name)
    \/ \E c \in Clients : PostReadOrder(c)
    \/ \E c \in Clients : PostAdd(c)
    \/ \E c \in Clients, id \in CategoryIds, name \in CategoryNames :
           CategoryPUT(c, id, name)
    \/ \E c \in Clients : PutRead(c)
    \/ \E c \in Clients : PutUpdate(c)
    \/ \E c \in Clients : PutQuery(c)
    \/ \E c \in Clients : PutBatch(c)

SpecCategories == InitCategories /\ [][NextCategories]_vars

\* =================================================================
\* Properties
\* =================================================================

\* The ledger call a SpecLedger step makes.
Call == lastOp'
IsCall == lastOp'.op = "transition"
\* The call passes the early return.
IsApplied == IsCall /\ Call.amount > 0 /\ Call.oldStatus # Call.newStatus
\* The stored date is not the current date.
Rollover == wallet.exists /\ wallet.todayDate # DateOf(now)

LogUnchanged == canteenTransactions' = canteenTransactions

\* Exactly one entry of the given type, amount and order id is appended.
LogAppended(type, amount, orderId) ==
    /\ Len(canteenTransactions') = Len(canteenTransactions) + 1
    /\ SubSeq(canteenTransactions', 1, Len(canteenTransactions)) = canteenTransactions
    /\ canteenTransactions'[Len(canteenTransactions')].type = type
    /\ canteenTransactions'[Len(canteenTransactions')].amount = amount
    /\ canteenTransactions'[Len(canteenTransactions')].orderId = orderId

LastLog == canteenTransactions[Len(canteenTransactions)]

\* The effect table of the specification (section 4.1), by counter.
TablePending(oldStatus, newStatus, amount) ==
    IF oldStatus = "pending" /\ newStatus \in ActiveStatuses THEN amount
    ELSE IF oldStatus \in ActiveStatuses /\ newStatus \in {"completed", "cancelled"}
    THEN -amount
    ELSE 0

TableTotal(oldStatus, newStatus, amount) ==
    IF oldStatus \in ActiveStatuses \cup {"pending"} /\ newStatus = "completed"
    THEN amount
    ELSE IF oldStatus = "completed" /\ newStatus = "cancelled" THEN -amount
    ELSE 0

TableToday(oldStatus, newStatus, amount) ==
    IF oldStatus \in ActiveStatuses \cup {"pending"} /\ newStatus = "completed"
    THEN amount
    ELSE 0

\* C1: in every state reached by PATCH requests and withdrawals from an empty
\* wallet and pending orders with positive totals, totalBalance >= 0 and
\* pendingAmount >= 0.
C1_WalletNonNegative ==
    wallet.totalBalance >= 0 /\ wallet.pendingAmount >= 0

\* C2 as stated: confirmed/preparing/ready -> completed with amount > 0 takes
\* amount out of pendingAmount, adds it to totalBalance and to todayCollection
\* (whatever the stored date), and appends one credit entry.
C2_CompletionAsStated ==
    [][ (IsApplied /\ Call.oldStatus \in ActiveStatuses
                   /\ Call.newStatus = "completed")
        => /\ wallet'.pendingAmount = wallet.pendingAmount - Call.amount
           /\ wallet'.totalBalance = wallet.totalBalance + Call.amount
           /\ wallet'.todayCollection = wallet.todayCollection + Call.amount
           /\ LogAppended("credit", Call.amount, Call.orderId) ]_vars

\* C2 amended: confirmed/preparing/ready -> completed with amount > 0 takes
\* amount out of pendingAmount, adds it to totalBalance, appends exactly one
\* credit entry with the amount and the order id, and adds amount to
\* todayCollection when the stored date is the current date (or the wallet is
\* new); on a day rollover todayCollection becomes exactly amount.
C2_Completion ==
    [][ (IsApplied /\ Call.oldStatus \in ActiveStatuses
                   /\ Call.newStatus = "completed")
        => /\ wallet'.pendingAmount = wallet.pendingAmount - Call.amount
           /\ wallet'.totalBalance = wallet.totalBalance + Call.amount
           /\ wallet'.todayCollection =
                  (IF Rollover THEN 0 ELSE wallet.todayCollection) + Call.amount
           /\ LogAppended("credit", Call.amount, Call.orderId) ]_vars

\* A completion of amount 2 across a day rollover has been committed.
C2_Witness ==
    /\ lastOp.op = "transition"
    /\ lastOp.oldStatus = "preparing" /\ lastOp.newStatus = "completed"
    /\ lastOp.amount = 2
    /\ lastOp.before.exists /\ lastOp.before.todayDate = 0
    /\ lastOp.before.todayCollection = 1 /\ lastOp.before.pendingAmount = 1
    /\ wallet.todayDate = 1 /\ wallet.todayCollection = 2
    /\ wallet.totalBalance = 3 /\ wallet.pendingAmount = -1
    /\ Len(canteenTransactions) = 2 /\ LastLog.type = "credit"

\* C3: pending -> confirmed/preparing/ready with amount > 0 adds exactly amount
\* to pendingAmount and leaves totalBalance unchanged.
C3_Acceptance ==
    [][ (IsApplied /\ Call.oldStatus = "pending"
                   /\ Call.newStatus \in ActiveStatuses)
        => /\ wallet'.pendingAmount = wallet.pendingAmount + Call.amount
           /\ wallet'.totalBalance = wallet.totalBalance ]_vars

\* An acceptance of amount 2 on a wallet holding 1 in escrow has been committed.
C3_Witness ==
    /\ lastOp.op = "transition"
    /\ lastOp.oldStatus = "pending" /\ lastOp.newStatus = "ready"
    /\ lastOp.amount = 2
    /\ lastOp.before.exists /\ lastOp.before.pendingAmount = 1
    /\ wallet.pendingAmount = 3 /\ wallet.totalBalance = 1

\* C4: completed -> cancelled with amount > 0 takes exactly amount out of
\* totalBalance, appends exactly one refund_deduction entry with the amount,
\* leaves pendingAmount unchanged and, when no day rollover occurs, leaves
\* todayCollection unchanged.
C4_RefundOfCompleted ==
    [][ (IsApplied /\ Call.oldStatus = "completed"
                   /\ Call.newStatus = "cancelled")
        => /\ wallet'.totalBalance = wallet.totalBalance - Call.amount
           /\ wallet'.pendingAmount = wallet.pendingAmount
           /\ (~Rollover => wallet'.todayCollection = wallet.todayCollection)
           /\ LogAppended("refund_deduction", Call.amount, Call.orderId) ]_vars

\* A completed order of amount 1 has been cancelled on the day of its collection.
C4_Witness ==
    /\ lastOp.op = "transition"
    /\ lastOp.oldStatus = "completed" /\ lastOp.newStatus = "cancelled"
    /\ lastOp.amount = 1
    /\ lastOp.before.exists /\ lastOp.before.todayDate = DateOf(now)
    /\ lastOp.before.totalBalance = 1
    /\ wallet.totalBalance = 0 /\ wallet.todayCollection = 1
    /\ wallet.pendingAmount = 1
    /\ Len(canteenTransactions) = 1 /\ LastLog.type = "refund_deduction"

\* C5: confirmed/preparing/ready -> cancelled with amount > 0 takes exactly
\* amount out of pendingAmount, leaves totalBalance unchanged and appends no
\* merchant log entry.
C5_CancelActive ==
    [][ (IsApplied /\ Call.oldStatus \in ActiveStatuses
                   /\ Call.newStatus = "cancelled")
        => /\ wallet'.pendingAmount = wallet.pendingAmount - Call.amount
           /\ wallet'.totalBalance = wallet.totalBalance
           /\ LogUnchanged ]_vars

\* A confirmed order of amount 1 has been cancelled out of an escrow of 1.
C5_Witness ==
    /\ lastOp.op = "transition"
    /\ lastOp.oldStatus = "confirmed" /\ lastOp.newStatus = "cancelled"
    /\ lastOp.amount = 1
    /\ lastOp.before.exists /\ lastOp.before.pendingAmount = 1
    /\ wallet.pendingAmount = 0 /\ wallet.totalBalance = 1
    /\ wallet.lastUpdated = now
    /\ Len(canteenTransactions) = 1

\* C6: pending -> cancelled with amount > 0 leaves totalBalance and
\* pendingAmount unchanged and appends no merchant log entry.
C6_CancelPending ==
    [][ (IsApplied /\ Call.oldStatus = "pending"
                   /\ Call.newStatus = "cancelled")
        => /\ wallet'.totalBalance = wallet.totalBalance
           /\ wallet'.pendingAmount = wallet.pendingAmount
           /\ LogUnchanged ]_vars

\* A pending order of amount 2 has been cancelled on a wallet holding 1 and 1.
C6_Witness ==
    /\ lastOp.op = "transition"
    /\ lastOp.oldStatus = "pending" /\ lastOp.newStatus = "cancelled"
    /\ lastOp.amount = 2
    /\ lastOp.before.exists
    /\ wallet.pendingAmount = 1 /\ wallet.totalBalance = 1
    /\ canteenTransactions = << >>

\* The wallet one call leaves, as the commit applies its writes.
WalletAfter(walletDoc, oldStatus, newStatus, amount, orderId, t) ==
    ApplyWalletWrites(walletDoc,
        updateCanteenWallet(walletDoc, oldStatus, newStatus, amount, orderId, t).wallet)

EscrowPlusSettled(walletDoc) == walletDoc.pendingAmount + walletDoc.totalBalance

\* C7: from the same wallet and for the same amount > 0, pendingAmount +
\* totalBalance after pending -> completed equals its value after
\* pending -> confirmed followed by confirmed -> completed.
C7_PathIndependent ==
    [][ (IsApplied /\ Call.oldStatus = "pending" /\ Call.newStatus = "completed")
        => EscrowPlusSettled(wallet') =
           EscrowPlusSettled(
               WalletAfter(
                   WalletAfter(wallet, "pending", "confirmed", Call.amount,
                               Call.orderId, now),
                   "confirmed", "completed", Call.amount, Call.orderId, now)) ]_vars

\* A direct completion of amount 2 has been committed on a wallet holding 1 and 1.
C7_Witness ==
    /\ lastOp.op = "transition"
    /\ lastOp.oldStatus = "pending" /\ lastOp.newStatus = "completed"
    /\ lastOp.amount = 2
    /\ lastOp.before.exists
    /\ lastOp.before.pendingAmount = 1 /\ lastOp.before.totalBalance = 1
    /\ wallet.pendingAmount = 1 /\ wallet.totalBalance = 3
    /\ Len(canteenTransactions) = 1 /\ LastLog.type = "credit"

\* C8: a call with amount <= 0 or with oldStatus = newStatus changes no wallet
\* counter and no date field, creates no wallet document and writes no log entry.
C8_NoOp ==
    [][ (IsCall /\ (Call.amount <= 0 \/ Call.oldStatus = Call.newStatus))
        => wallet' = wallet /\ LogUnchanged ]_vars

\* A completion with amount 0 has returned on a day later than the stored date,
\* leaving the collection and the date as they were.
C8_Witness ==
    /\ lastOp.op = "transition"
    /\ lastOp.oldStatus = "confirmed" /\ lastOp.newStatus = "completed"
    /\ lastOp.amount = 0
    /\ lastOp.before.exists /\ wallet = lastOp.before
    /\ wallet.todayDate # DateOf(now)
    /\ wallet.todayCollection = 1 /\ wallet.pendingAmount = 1
    /\ canteenTransactions = << >>

\* The same, for a call with equal statuses and no wallet document.
C8_WitnessSameStatus ==
    /\ lastOp.op = "transition"
    /\ lastOp.oldStatus = "ready" /\ lastOp.newStatus = "ready"
    /\ lastOp.amount = 2
    /\ ~lastOp.before.exists /\ ~wallet.exists

\* C9: a transition applied on a date other than the stored todayDate leaves
\* todayDate at the current date and todayCollection at exactly this
\* transition's contribution: amount for a completion, 0 otherwise.
C9_DayRollover ==
    [][ (IsApplied /\ Rollover)
        => /\ wallet'.todayDate = DateOf(now)
           /\ wallet'.todayCollection =
                  TableToday(Call.oldStatus, Call.newStatus, Call.amount) ]_vars

\* A completion of amount 2 has been committed the day after a collection of 1.
C9_Witness ==
    /\ lastOp.op = "transition"
    /\ lastOp.oldStatus = "ready" /\ lastOp.newStatus = "completed"
    /\ lastOp.amount = 2
    /\ DateOf(now) = 1
    /\ lastOp.before.exists /\ lastOp.before.todayDate = 0
    /\ lastOp.before.todayCollection = 1
    /\ wallet.todayDate = 1 /\ wallet.todayCollection = 2
    /\ wallet.totalBalance = 3
    /\ wallet.lastUpdated = now

\* C10: a transition applied when no wallet exists leaves a wallet whose
\* counters are zero plus that transition's deltas and whose todayDate is the
\* current date, created and updated in the one commit.
C10_WalletCreated ==
    [][ (IsApplied /\ ~wallet.exists)
        => /\ wallet'.exists
           /\ wallet'.todayDate = DateOf(now)
           /\ wallet'.pendingAmount =
                  TablePending(Call.oldStatus, Call.newStatus, Call.amount)
           /\ wallet'.totalBalance =
                  TableTotal(Call.oldStatus, Call.newStatus, Call.amount)
           /\ wallet'.todayCollection =
                  TableToday(Call.oldStatus, Call.newStatus, Call.amount) ]_vars

\* A first acceptance of amount 2 has created the wallet on day 1.
C10_Witness ==
    /\ lastOp.op = "transition"
    /\ lastOp.oldStatus = "pending" /\ lastOp.newStatus = "confirmed"
    /\ lastOp.amount = 2
    /\ DateOf(now) = 1
    /\ ~lastOp.before.exists
    /\ wallet.exists /\ wallet.todayDate = 1
    /\ wallet.pendingAmount = 2 /\ wallet.totalBalance = 0
    /\ wallet.todayCollection = 0
    /\ wallet.lastUpdated = now

\* A log entry for the call's amount and order id is appended, and nothing else
\* in the log changes.
CallLogged ==
    /\ Len(canteenTransactions') = Len(canteenTransactions) + 1
    /\ SubSeq(canteenTransactions', 1, Len(canteenTransactions))
           = canteenTransactions
    /\ canteenTransactions'[Len(canteenTransactions')].amount = Call.amount
    /\ canteenTransactions'[Len(canteenTransactions')].orderId = Call.orderId

CountersChanged ==
    \/ wallet'.pendingAmount # wallet.pendingAmount
    \/ wallet'.totalBalance # wallet.totalBalance
    \/ wallet'.todayCollection # wallet.todayCollection

\* C19 as stated: every applied transition that changes pendingAmount,
\* totalBalance or todayCollection appends a log entry in the same unit of work.
C19_LogOnAnyCounterAsStated ==
    [][ (IsApplied /\ CountersChanged) => CallLogged ]_vars

\* C19: every applied transition that changes totalBalance appends exactly one
\* log entry, for its amount and order id, in the same unit of work; an applied
\* transition that leaves totalBalance alone (it moves escrow only, or only
\* resets todayCollection on a new day) appends none.
C19_LogOnSettledChange ==
    [][ IsApplied =>
          IF wallet'.totalBalance # wallet.totalBalance
          THEN CallLogged ELSE LogUnchanged ]_vars

\* ready -> completed for 1 has been applied and logged after an earlier entry.
C19_Witness ==
    /\ lastOp.op = "transition"
    /\ lastOp.oldStatus = "ready" /\ lastOp.newStatus = "completed"
    /\ lastOp.amount = 1
    /\ lastOp.before.exists /\ lastOp.before.totalBalance = 0
    /\ wallet.totalBalance = 1
    /\ Len(canteenTransactions) = 2 /\ LastLog.type = "credit"
    /\ LastLog.amount = 1 /\ LastLog.orderId = lastOp.orderId

\* pending -> confirmed for 1 has moved escrow and the log is still empty.
C19_WitnessEscrowUnlogged ==
    /\ lastOp.op = "transition"
    /\ lastOp.oldStatus = "pending" /\ lastOp.newStatus = "confirmed"
    /\ lastOp.amount = 1
    /\ lastOp.before.exists /\ lastOp.before.pendingAmount = 0
    /\ wallet.pendingAmount = 1
    /\ canteenTransactions = << >>

\* -----------------------------------------------------------------
\* One request (SpecRequest)
\* -----------------------------------------------------------------
\* The step handles a request (the clock does not).
IsRequest == nOps' = nOps + 1

WithdrawAmounts == 0..MaxAmount
PrepTimes == {NoPrepTime, 1}

\* Nothing the handlers store has changed.
StoreUnchanged ==
    UNCHANGED <<wallet, canteenTransactions, withdrawals, orders, users,
                walletTransactions>>

\* C11: a withdrawal of amount, 0 < amount <= totalBalance, on an existing
\* wallet succeeds, takes exactly amount out of totalBalance, appends exactly
\* one withdrawal log entry and exactly one receipt for the amount, and leaves
\* pendingAmount, todayCollection and todayDate unchanged.
C11_WithdrawalEffect ==
    [][ \A amount \in WithdrawAmounts :
          (/\ IsRequest /\ amount > 0
           /\ wallet.exists /\ amount <= wallet.totalBalance
           /\ Withdraw(amount))
          => /\ lastOp'.code = 200
             /\ wallet'.totalBalance = wallet.totalBalance - amount
             /\ wallet'.pendingAmount = wallet.pendingAmount
             /\ wallet'.todayCollection = wallet.todayCollection
             /\ wallet'.todayDate = wallet.todayDate
             /\ wallet'.exists
             /\ LogAppended("withdrawal", amount, NoOrderId)
             /\ withdrawals' = Append(withdrawals, WithdrawalReceipt(amount)) ]_vars

\* A withdrawal of 1 has succeeded on a wallet that held 1 settled and 1 in
\* escrow.
C11_Witness ==
    /\ lastOp.op = "withdraw" /\ lastOp.code = 200
    /\ wallet.totalBalance = 0 /\ wallet.pendingAmount = 1
    /\ wallet.todayCollection = 1 /\ wallet.lastUpdated = now
    /\ Len(withdrawals) = 1 /\ withdrawals[1].amount = 1
    /\ LastLog.type = "withdrawal" /\ LastLog.amount = 1

\* The failure a withdrawal of amount meets on the wallet document, if any.
WithdrawFailure(walletDoc, amount) ==
    IF ~walletDoc.exists THEN "Wallet not found"
    ELSE IF amount > walletDoc.totalBalance
    THEN "Insufficient balance for withdrawal"
    ELSE ""

\* C12: a withdrawal that fails because amount > totalBalance or because no
\* wallet exists leaves the wallet as it was (no wallet is created), appends no
\* log entry and no receipt, and the same request fails the same way again.
C12_WithdrawalFailure ==
    [][ \A amount \in WithdrawAmounts :
          (/\ IsRequest /\ amount > 0
           /\ WithdrawFailure(wallet, amount) # ""
           /\ Withdraw(amount))
          => /\ lastOp'.code = 500
             /\ lastOp'.error = WithdrawFailure(wallet, amount)
             /\ StoreUnchanged
             /\ WithdrawFailure(wallet', amount) = lastOp'.error ]_vars

\* A withdrawal has been refused for insufficient balance on a wallet holding 1.
C12_Witness ==
    /\ lastOp.op = "withdraw" /\ lastOp.code = 500
    /\ lastOp.error = "Insufficient balance for withdrawal"
    /\ wallet.exists /\ wallet.totalBalance = 1
    /\ canteenTransactions = << >> /\ withdrawals = << >>

\* A withdrawal has been refused because there is no wallet.
C12_WitnessNoWallet ==
    /\ lastOp.op = "withdraw" /\ lastOp.code = 500
    /\ lastOp.error = "Wallet not found"
    /\ ~wallet.exists /\ canteenTransactions = << >> /\ withdrawals = << >>

\* The merchant counters move by the table's deltas for oldStatus -> newStatus.
WalletMovedBy(oldStatus, newStatus, amount) ==
    /\ wallet'.exists
    /\ wallet'.pendingAmount =
           wallet.pendingAmount + TablePending(oldStatus, newStatus, amount)
    /\ wallet'.totalBalance =
           wallet.totalBalance + TableTotal(oldStatus, newStatus, amount)

\* In this step order o becomes cancelled.
OrderCancelled(o) ==
    orders[o].status # "cancelled" /\ orders'[o].status = "cancelled"

\* In this step the customer of order o is credited the order total and one
\* refund entry for it is appended to the customers' log.
CustomerRefunded(o) ==
    /\ users' = [users EXCEPT ![orders[o].userId].walletBalance =
                                  @ + orders[o].total]
    /\ walletTransactions' =
           Append(walletTransactions,
                  [userId |-> orders[o].userId, type |-> "refund",
                   amount |-> orders[o].total, orderId |-> orders[o].orderId])

CustomersUnchanged ==
    users' = users /\ walletTransactions' = walletTransactions

\* C13: a PATCH that cancels an order whose status is not cancelled sets the
\* status to cancelled, applies the merchant-wallet delta for
\* oldStatus -> cancelled, credits the customer with exactly the order total and
\* appends exactly one refund entry for it, all in one commit; and in no step
\* does an order become cancelled without the refund, or a customer balance or
\* customer log change without an order becoming cancelled.
C13_CancelRefunds ==
    [][ /\ \A o \in OrderIds, prepTime \in PrepTimes :
              (/\ IsRequest /\ lastOp'.code = 200
               /\ orders[o].status # "cancelled"
               /\ PATCH(o, "cancelled", prepTime))
              => /\ OrderCancelled(o)
                 /\ WalletMovedBy(orders[o].status, "cancelled", orders[o].total)
                 /\ CustomerRefunded(o)
        /\ \A o \in OrderIds : OrderCancelled(o) => CustomerRefunded(o)
        /\ (\A o \in OrderIds : ~OrderCancelled(o)) => CustomersUnchanged ]_vars

\* C14: a cancel request for an order that is already cancelled is answered
\* with an error and changes nothing: no refund, no refund entry, no wallet
\* change, no order update.
C14_AlreadyCancelled ==
    [][ \A o \in OrderIds, prepTime \in PrepTimes :
            (/\ IsRequest /\ orders[o].status = "cancelled"
             /\ PATCH(o, "cancelled", prepTime))
            => /\ lastOp'.code = 500
               /\ lastOp'.error \in {"Order is already cancelled", StorageError}
               /\ ~lastOp'.refunded
               /\ StoreUnchanged ]_vars

\* The second cancellation of o1 was refused by the guard.
C14_Witness ==
    /\ lastOp.op = "PATCH" /\ lastOp.error = "Order is already cancelled"
    /\ orders["o1"].status = "cancelled"
    /\ users["u1"].exists /\ users["u1"].walletBalance = 0
    /\ walletTransactions = << >>
    /\ wallet.exists /\ wallet.totalBalance = 1

\* The orders whose status this step changes.
StatusChanged == {o \in OrderIds : orders'[o].status # orders[o].status}

\* C15: a status-change request that fails (no order id, order not found,
\* already cancelled, customer record missing, storage error) leaves the orders,
\* the wallet, the customers and both logs as they were; and in every step the
\* wallet moves by the table's deltas for exactly the status change the step
\* makes, so neither happens without the other.
C15_FailureAborts ==
    [][ /\ (IsRequest /\ lastOp'.op = "PATCH" /\ lastOp'.code # 200)
            => StoreUnchanged
        /\ (IsRequest /\ lastOp'.op = "PATCH")
            => IF StatusChanged = {}
               THEN wallet'.pendingAmount = wallet.pendingAmount
                    /\ wallet'.totalBalance = wallet.totalBalance
                    /\ LogUnchanged
               ELSE \A o \in StatusChanged :
                       WalletMovedBy(orders[o].status, orders'[o].status,
                                     orders[o].total) ]_vars

\* The cancellation of a completed order failed on the missing customer record
\* and the settled total is still there.
C15_Witness ==
    /\ lastOp.op = "PATCH" /\ lastOp.code = 500
    /\ lastOp.error = "NOT_FOUND: no document to update"
    /\ ~users["u1"].exists /\ orders["o1"].status = "completed"
    /\ wallet.exists /\ wallet.totalBalance = 1
    /\ canteenTransactions = << >> /\ walletTransactions = << >>

\* The store failed a request and nothing moved.
C15_WitnessStorage ==
    /\ lastOp.op = "PATCH" /\ lastOp.error = StorageError
    /\ orders["o1"].status = "pending" /\ ~wallet.exists

\* The completed order o1 has been cancelled: its customer holds the refund of
\* 1 and the merchant's settled balance is back at 0.
C13_Witness ==
    /\ lastOp.op = "PATCH" /\ lastOp.code = 200 /\ lastOp.refunded
    /\ orders["o1"].status = "cancelled"
    /\ users["u1"].walletBalance = 1
    /\ Len(walletTransactions) = 1 /\ walletTransactions[1].amount = 1
    /\ wallet.exists /\ wallet.totalBalance = 0 /\ wallet.todayCollection = 1
    /\ Len(canteenTransactions) = 1 /\ LastLog.type = "refund_deduction"

\* -----------------------------------------------------------------
\* Sequences of requests (Spec)
\* -----------------------------------------------------------------
LogTypes == {"credit", "withdrawal", "refund_deduction"}

\* C20: the merchant log is append-only: in every step the log of the next
\* state begins with the whole log of the current state, entry for entry (same
\* amount, type and order id), so the log of any later state extends the log of
\* any earlier one; and in every state every entry has a positive amount and a
\* type in {credit, withdrawal, refund_deduction}.
C20_LogAppendOnly ==
    /\ [](\A i \in 1..Len(canteenTransactions) :
             /\ canteenTransactions[i].amount > 0
             /\ canteenTransactions[i].type \in LogTypes)
    /\ [][ /\ Len(canteenTransactions') >= Len(canteenTransactions)
           /\ SubSeq(canteenTransactions', 1, Len(canteenTransactions))
                  = canteenTransactions ]_vars

\* A completion, a withdrawal and a refund have been logged one after the other.
C20_Witness ==
    /\ Len(canteenTransactions) = 3
    /\ canteenTransactions[1].type = "credit"
    /\ canteenTransactions[1].orderId = "A1"
    /\ canteenTransactions[2].type = "withdrawal"
    /\ canteenTransactions[2].orderId = NoOrderId
    /\ canteenTransactions[3].type = "refund_deduction"
    /\ \A i \in 1..3 : canteenTransactions[i].amount = 1

RECURSIVE SumTotals(_)
\* The sum of the totals of a set of orders.
SumTotals(os) ==
    IF os = {} THEN 0
    ELSE LET o == CHOOSE x \in os : TRUE
         IN  orders[o].total + SumTotals(os \ {o})

\* C21: in every state reached by PATCH requests from the empty wallet with
\* every order pending, pendingAmount is the sum of the totals of the orders
\* whose status is confirmed, preparing or ready.
C21_EscrowIsActiveOrders ==
    wallet.pendingAmount =
        SumTotals({o \in OrderIds : orders[o].status \in ActiveStatuses})

\* The place of a status in pending < confirmed < preparing < ready < completed.
Rank(status) ==
    CASE status = "pending" -> 1
      [] status = "confirmed" -> 2
      [] status = "preparing" -> 3
      [] status = "ready" -> 4
      [] status = "completed" -> 5
      [] OTHER -> 0

\* C22: every status change a request commits moves the order to cancelled or
\* strictly forward in pending < confirmed < preparing < ready < completed, no
\* order leaves cancelled, and every status is one of the six values.
C22_Lifecycle ==
    /\ [](\A o \in OrderIds : orders[o].status \in Statuses)
    /\ [][ \A o \in OrderIds :
             orders'[o].status # orders[o].status
             => /\ orders[o].status # "cancelled"
                /\ \/ orders'[o].status = "cancelled"
                   \/ Rank(orders[o].status) < Rank(orders'[o].status) ]_vars

\* -----------------------------------------------------------------
\* Concurrent clients (SpecConc)
\* -----------------------------------------------------------------
\* Both clients have their response.
AllDone == \A c \in Clients : txn[c].pc = "done"

\* The status a PATCH request asks the order to take, given its status when
\* the clients started.
Target(request) ==
    IF request.status = "cancelled" THEN "cancelled"
    ELSE PatchNewStatus(request.status, request.prepTime,
                        start.orders[request.orderId].status)

\* The two clients ask the same order to take the same status.
SameStatusChange ==
    /\ \A c \in Clients : txn[c].request.op = "PATCH"
    /\ txn["c1"].request.orderId = txn["c2"].request.orderId
    /\ Target(txn["c1"].request) = Target(txn["c2"].request)

\* C16: when both clients ask the same order to take the same status, then once
\* both are answered the wallet, the merchant log, the customers and the
\* customers' log are what one handling of the request alone leaves from the
\* starting store, and the order has that status: the deltas, the log entry and
\* the refund are applied once.
C16_AppliedOnce ==
    (AllDone /\ SameStatusChange)
    => LET once == Exec(start, txn["c1"].request, now)
       IN  /\ wallet = once.wallet
           /\ canteenTransactions = once.canteenTransactions
           /\ users = once.users
           /\ walletTransactions = once.walletTransactions
           /\ withdrawals = once.withdrawals
           /\ orders[txn["c1"].request.orderId].status = Target(txn["c1"].request)
           /\ once.orders[txn["c1"].request.orderId].status = Target(txn["c1"].request)

\* Both clients asked for confirmed -> completed of o1 and read the order before
\* either committed; the second one was run again and found nothing to do.
C16_Witness ==
    /\ AllDone
    /\ \A c \in Clients : txn[c].request = PatchRequest("o1", "completed", NoPrepTime)
    /\ \A c \in Clients : txn[c].response.code = 200
    /\ start.orders["o1"].status = "confirmed" /\ start.wallet.exists
    /\ \E c \in Clients : txn[c].attempt = 2
    /\ orders["o1"].status = "completed"
    /\ wallet.totalBalance = start.wallet.totalBalance + 1
    /\ wallet.pendingAmount = start.wallet.pendingAmount - 1
    /\ Len(canteenTransactions) = 1

\* Both clients asked to cancel o1; one was refunded, the other was refused.
C16_WitnessCancelTwice ==
    /\ AllDone
    /\ \A c \in Clients : txn[c].request = PatchRequest("o1", "cancelled", NoPrepTime)
    /\ start.orders["o1"].status = "completed"
    /\ \E c \in Clients : txn[c].response.error = "Order is already cancelled"
    /\ \E c \in Clients : txn[c].attempt = 2
    /\ users["u1"].walletBalance = 1 /\ Len(walletTransactions) = 1

\* The wallet and the merchant log after r1 and then r2, each handled alone.
Serial(r1, r2) ==
    LET s == Exec(Exec(start, r1, now), r2, now)
    IN  <<s.wallet, s.canteenTransactions>>

\* C17: once two concurrent requests are both answered, the wallet (its three
\* counters, its date and stamp) and the merchant log are what handling the two
\* requests one after the other, in one of the two orders, leaves from the
\* starting store: no delta is lost and none is applied twice.
C17_Serializable ==
    AllDone
    => <<wallet, canteenTransactions>> \in
          {Serial(txn["c1"].request, txn["c2"].request),
           Serial(txn["c2"].request, txn["c1"].request)}

\* With no wallet yet, the completions of o1 and o2 ran concurrently; both
\* totals are in the wallet the first of them created.
C17_Witness ==
    /\ AllDone
    /\ ~start.wallet.exists
    /\ start.orders["o1"].status = "pending" /\ start.orders["o2"].status = "pending"
    /\ txn["c1"].request = PatchRequest("o1", "completed", NoPrepTime)
    /\ txn["c2"].request = PatchRequest("o2", "completed", NoPrepTime)
    /\ \E c \in Clients : txn[c].attempt = 2
    /\ wallet.exists /\ wallet.totalBalance = 1 + MaxAmount
    /\ wallet.todayCollection = 1 + MaxAmount
    /\ Len(canteenTransactions) = 2

\* The step commits a withdrawal of client c.
WithdrawalCommits(c) ==
    /\ txn[c].request.op = "withdraw"
    /\ txn[c].pc # "done" /\ txn'[c].pc = "done"
    /\ txn'[c].response.code = 200

\* Both clients withdrew with success amounts that each fit the settled total
\* they started from and together exceed it.
BothOverdraw ==
    /\ AllDone
    /\ \A c \in Clients :
           /\ txn[c].request.op = "withdraw" /\ txn[c].response.code = 200
           /\ txn[c].request.amount <= start.wallet.totalBalance
    /\ txn["c1"].request.amount + txn["c2"].request.amount
           > start.wallet.totalBalance

\* C18: in every interleaving of withdrawals and status changes, a withdrawal
\* that succeeds commits on a wallet whose totalBalance is at least its amount
\* and takes exactly the amount out of it; and two withdrawals that each fit
\* the balance and together exceed it never both succeed.
C18_WithdrawalFits ==
    /\ [][ \A c \in Clients :
             WithdrawalCommits(c)
             => /\ wallet.exists
                /\ txn[c].request.amount <= wallet.totalBalance
                /\ wallet'.totalBalance =
                       wallet.totalBalance - txn[c].request.amount ]_vars
    /\ [](~BothOverdraw)

\* Two withdrawals of the whole settled total ran concurrently: one succeeded,
\* the other was run again and refused.
C18_Witness ==
    /\ AllDone
    /\ \A c \in Clients : txn[c].request = WithdrawRequest(MaxBal)
    /\ start.wallet.totalBalance = MaxBal
    /\ \E c \in Clients : txn[c].response.code = 200
    /\ \E c \in Clients :
           /\ txn[c].attempt = 2
           /\ txn[c].response.error = "Insufficient balance for withdrawal"
    /\ wallet.totalBalance = 0 /\ Len(withdrawals) = 1

\* A withdrawal that read the settled total before a refund took it away was
\* run again and refused.
C18_WitnessAfterRefund ==
    /\ AllDone
    /\ txn["c1"].request = PatchRequest("o1", "cancelled", NoPrepTime)
    /\ txn["c2"].request = WithdrawRequest(MaxBal)
    /\ start.orders["o1"].status = "completed" /\ start.wallet.exists
    /\ txn["c1"].response.code = 200
    /\ txn["c2"].attempt = 2
    /\ txn["c2"].response.error = "Insufficient balance for withdrawal"

\* -----------------------------------------------------------------
\* The demand forecast (SpecForecast)
\* -----------------------------------------------------------------
\* The request was answered with a report.
Reported == report.status = 200

AutoOrderIdSet == {AutoOrderIds[k] : k \in DOMAIN AutoOrderIds}
ActiveIds == {id \in AutoOrderIdSet : autoOrders[id].status = "active"}
DaySet == {ALL_DAYS[k] : k \in DOMAIN ALL_DAYS}
ItemIds == {autoOrders[id].itemId : id \in ActiveIds}
SeqSet(seq) == {seq[k] : k \in DOMAIN seq}

\* The scheduled-day set the specification gives a stored auto-order.
SpecScheduledSet(d) ==
    IF d.frequency = "daily" THEN DaySet
    ELSE IF d.frequency = "weekdays" THEN {"Mon", "Tue", "Wed", "Thu", "Fri"}
    ELSE IF d.frequency = "custom" THEN SeqSet(d.customDays.days)
    ELSE {}

\* The entry of the report for auto-order id.
ReportedOrder(id) ==
    report.autoOrders[CHOOSE k \in DOMAIN report.autoOrders :
                          report.autoOrders[k].id = id]

\* The report for the same documents with auto-order id left out.
ReportWithout(id) ==
    computeForecast([autoOrders EXCEPT ![id] = Paused], menuItems, forecastAt)

\* C23: the scheduled days of every active auto-order are all 7 days for daily,
\* Mon..Fri for weekdays, the provided customDays for custom and none for any
\* other or absent frequency; and an auto-order with no scheduled day adds
\* nothing: the demand records, the 7-day forecast, the daily summary and the
\* risk count are those of the report without it.
C23_ScheduledDays ==
    Reported =>
        /\ {report.autoOrders[k].id : k \in DOMAIN report.autoOrders} = ActiveIds
        /\ \A id \in ActiveIds :
               /\ SeqSet(ReportedOrder(id).scheduledDays)
                      = SpecScheduledSet(autoOrders[id])
               /\ (autoOrders[id].frequency = "custom" /\ autoOrders[id].customDays.isArray)
                      => ReportedOrder(id).scheduledDays = autoOrders[id].customDays.days
               /\ SpecScheduledSet(autoOrders[id]) = {}
                      => LET without == ReportWithout(id)
                         IN  /\ report.aggregateDemand = without.aggregateDemand
                             /\ report.forecast = without.forecast
                             /\ report.summary.dailyDemandByItem
                                    = without.summary.dailyDemandByItem
                             /\ report.summary.itemsAtRisk
                                    = without.summary.itemsAtRisk

\* An auto-order with no frequency and a daily one for the same item: the
\* report has the 7 records of the daily one alone.
C23_Witness ==
    /\ Reported
    /\ autoOrders["a1"].status = "active" /\ autoOrders["a1"].frequency = ""
    /\ autoOrders["a1"].itemId = "i1" /\ autoOrders["a1"].quantity = MaxQuantity
    /\ autoOrders["a2"].status = "active" /\ autoOrders["a2"].frequency = "daily"
    /\ autoOrders["a2"].itemId = "i1" /\ autoOrders["a2"].quantity = 1
    /\ Len(report.autoOrders) = 2
    /\ report.autoOrders[1].scheduledDays = << >>
    /\ report.autoOrders[1].frequency = "daily"
    /\ Len(report.autoOrders[2].scheduledDays) = 7
    /\ Len(report.aggregateDemand) = 7
    /\ \A k \in 1..7 : report.aggregateDemand[k].totalQuantity = 1

\* A custom auto-order for Saturday alone has been reported.
C23_WitnessCustom ==
    /\ Reported
    /\ autoOrders["a1"].status = "active" /\ autoOrders["a1"].frequency = "custom"
    /\ autoOrders["a2"].status = "paused"
    /\ report.autoOrders[1].scheduledDays = <<"Sat">>
    /\ Len(report.aggregateDemand) = 1 /\ report.aggregateDemand[1].day = "Sat"

\* The demand records of the report for an item and a weekday.
Records(itemId, day) ==
    {k \in DOMAIN report.aggregateDemand :
        /\ report.aggregateDemand[k].itemId = itemId
        /\ report.aggregateDemand[k].day = day}

\* The aggregated demand of the report for an item on a weekday, 0 without a
\* record.
Demand(itemId, day) ==
    IF Records(itemId, day) = {} THEN 0
    ELSE report.aggregateDemand[CHOOSE k \in Records(itemId, day) : TRUE].totalQuantity

RECURSIVE SumOver(_, _)
\* The sum of f over the set S.
SumOver(S, f) ==
    IF S = {} THEN 0
    ELSE LET x == CHOOSE y \in S : TRUE IN f[x] + SumOver(S \ {x}, f)

\* The times a weekday occurs in a list of days.
Occurrences(days, day) == Cardinality({k \in DOMAIN days : days[k] = day})

\* The active auto-orders for an item that are scheduled on a weekday.
ScheduledOn(itemId, day) ==
    {id \in ActiveIds :
        /\ autoOrders[id].itemId = itemId
        /\ day \in SeqSet(ReportedOrder(id).scheduledDays)}

\* C24 as stated: the aggregated demand of every (item, weekday) is the sum of
\* the quantity fields of the active auto-orders for the item scheduled on the
\* weekday, and there is a record for exactly the pairs some auto-order touches.
C24_DemandIsSumAsStated ==
    Reported =>
        \A itemId \in ItemIds, day \in DaySet :
            /\ Demand(itemId, day) =
                   SumOver(ScheduledOn(itemId, day),
                           [id \in AutoOrderIdSet |-> autoOrders[id].quantity])
            /\ Cardinality(Records(itemId, day)) =
                   IF ScheduledOn(itemId, day) # {} THEN 1 ELSE 0

\* C24: the aggregated demand of every (item, weekday) is the sum, over the
\* active auto-orders for the item, of the quantity (1 when the quantity is
\* missing or 0) times the number of times the weekday occurs in the order's
\* scheduled days; there is one record for each pair some auto-order touches
\* and no other record.
C24_DemandIsSum ==
    Reported =>
        /\ \A itemId \in ItemIds, day \in DaySet :
               /\ Demand(itemId, day) =
                      SumOver(ScheduledOn(itemId, day),
                              [id \in AutoOrderIdSet |->
                                  (IF autoOrders[id].quantity = 0 THEN 1
                                   ELSE autoOrders[id].quantity)
                                  * Occurrences(ReportedOrder(id).scheduledDays, day)])
               /\ Cardinality(Records(itemId, day)) =
                      IF ScheduledOn(itemId, day) # {} THEN 1 ELSE 0
        /\ \A k \in DOMAIN report.aggregateDemand :
               /\ report.aggregateDemand[k].itemId \in ItemIds
               /\ report.aggregateDemand[k].day \in DaySet

\* A daily and a weekdays auto-order for the same item: Monday carries both
\* quantities, Saturday the daily one alone.
C24_Witness ==
    /\ Reported
    /\ autoOrders["a1"].status = "active" /\ autoOrders["a1"].frequency = "daily"
    /\ autoOrders["a1"].itemId = "i2" /\ autoOrders["a1"].quantity = MaxQuantity
    /\ autoOrders["a2"].status = "active" /\ autoOrders["a2"].frequency = "weekdays"
    /\ autoOrders["a2"].itemId = "i2" /\ autoOrders["a2"].quantity = 1
    /\ Len(report.aggregateDemand) = 7
    /\ Demand("i2", "Mon") = MaxQuantity + 1
    /\ Demand("i2", "Sat") = MaxQuantity

\* The menu items there are, and the stock the report is to compare with.
MenuIdSet == {id \in SeqSet(MenuIds) : menuItems[id].exists}
StockOf(id) == IF menuItems[id].quantity = Null THEN 0 ELSE menuItems[id].quantity

\* The day entries of the report and the item entries of day k.
ForecastDays == DOMAIN report.forecast
ItemsOn(k) == report.forecast[k].items
EntriesOf(k, itemId) == {i \in DOMAIN ItemsOn(k) : ItemsOn(k)[i].itemId = itemId}

\* The item's aggregated demand summed over the weekdays of days 1..k.
DemandThrough(itemId, k) ==
    SumOver(1..k, [j \in ForecastDays |-> Demand(itemId, report.forecast[j].dayName)])

\* C25: for every item listed on a day of the forecast, cumulativeDemand is the
\* sum of that item's aggregated demand over the weekdays of the days up to and
\* including this one, currentStock is the item's stock, remaining is
\* currentStock - cumulativeDemand, and risk is true exactly when
\* remaining < 0; no other item's demand enters the sum.
C25_RunningSum ==
    Reported =>
        \A k \in ForecastDays : \A i \in DOMAIN ItemsOn(k) :
            LET e == ItemsOn(k)[i]
            IN  /\ e.cumulativeDemand = DemandThrough(e.itemId, k)
                /\ e.currentStock = StockOf(e.itemId)
                /\ e.remaining = e.currentStock - e.cumulativeDemand
                /\ e.risk <=> (e.remaining < 0)

\* i1 has stock 2 and one unit of demand every day, i2 has demand too: i1 is
\* exactly sold out on the second day and one short on the third.
C25_Witness ==
    /\ Reported
    /\ menuItems["i1"].quantity = 2 /\ menuItems["i2"].exists
    /\ autoOrders["a1"].status = "active" /\ autoOrders["a1"].itemId = "i1"
    /\ autoOrders["a1"].frequency = "daily" /\ autoOrders["a1"].quantity = 1
    /\ autoOrders["a2"].status = "active" /\ autoOrders["a2"].itemId = "i2"
    /\ autoOrders["a2"].frequency = "daily" /\ autoOrders["a2"].quantity = 1
    /\ \E i \in DOMAIN ItemsOn(2) :
           /\ ItemsOn(2)[i].itemId = "i1" /\ ItemsOn(2)[i].cumulativeDemand = 2
           /\ ItemsOn(2)[i].remaining = 0 /\ ~ItemsOn(2)[i].risk
    /\ \E i \in DOMAIN ItemsOn(3) :
           /\ ItemsOn(3)[i].itemId = "i1" /\ ItemsOn(3)[i].cumulativeDemand = 3
           /\ ItemsOn(3)[i].remaining = -1 /\ ItemsOn(3)[i].risk

\* C26: a menu item is listed on a day of the forecast exactly when its
\* aggregated demand on that day's weekday is not 0, and then once, with that
\* demand; nothing that is not a menu item is listed.
C26_SparseDays ==
    Reported =>
        \A k \in ForecastDays :
            /\ \A id \in MenuIdSet :
                   Cardinality(EntriesOf(k, id)) =
                       IF Demand(id, report.forecast[k].dayName) # 0 THEN 1 ELSE 0
            /\ \A i \in DOMAIN ItemsOn(k) :
                   /\ ItemsOn(k)[i].itemId \in MenuIdSet
                   /\ ItemsOn(k)[i].demand # 0
                   /\ ItemsOn(k)[i].demand =
                          Demand(ItemsOn(k)[i].itemId, report.forecast[k].dayName)

\* i1 is wanted on Saturdays only and i2, wanted daily, is not on the menu:
\* six days list nothing and Saturday lists i1.
C26_Witness ==
    /\ Reported
    /\ ~menuItems["i2"].exists
    /\ autoOrders["a1"].status = "active" /\ autoOrders["a1"].itemId = "i2"
    /\ autoOrders["a1"].frequency = "daily"
    /\ autoOrders["a2"].status = "active" /\ autoOrders["a2"].itemId = "i1"
    /\ autoOrders["a2"].frequency = "custom"
    /\ Len(report.aggregateDemand) = 8
    /\ \A k \in ForecastDays :
           IF report.forecast[k].dayName = "Sat"
           THEN Len(ItemsOn(k)) = 1 /\ ItemsOn(k)[1].itemId = "i1"
           ELSE ItemsOn(k) = << >>
    /\ \E k \in ForecastDays : report.forecast[k].dayName = "Sat"

\* C27: on every day of the forecast the items at risk come before the items
\* not at risk, and within each of the two groups the names are in ascending
\* alphabetical order.
C27_DayOrder ==
    Reported =>
        \A k \in ForecastDays : \A i, j \in DOMAIN ItemsOn(k) :
            i < j =>
                /\ ItemsOn(k)[i].risk \/ ~ItemsOn(k)[j].risk
                /\ (ItemsOn(k)[i].risk = ItemsOn(k)[j].risk)
                       => NameRank[ItemsOn(k)[i].itemName]
                              <= NameRank[ItemsOn(k)[j].itemName]

\* On the first day Dosa, at risk, is listed before Chai, which is not.
C27_Witness ==
    /\ Reported
    /\ Len(ItemsOn(1)) = 2
    /\ ItemsOn(1)[1].itemName = "Dosa" /\ ItemsOn(1)[1].risk
    /\ ItemsOn(1)[2].itemName = "Chai" /\ ~ItemsOn(1)[2].risk

\* On the first day neither is at risk and Chai (i2) is listed before Dosa (i1).
C27_WitnessByName ==
    /\ Reported
    /\ Len(ItemsOn(1)) = 2
    /\ ItemsOn(1)[1].itemId = "i2" /\ ItemsOn(1)[1].itemName = "Chai"
    /\ ItemsOn(1)[2].itemId = "i1" /\ ItemsOn(1)[2].itemName = "Dosa"
    /\ ~ItemsOn(1)[1].risk /\ ~ItemsOn(1)[2].risk

\* The weekdays on which the report has a demand record for the item.
DemandDays(itemId) == {day \in DaySet : Records(itemId, day) # {}}

\* The entries of the daily-demand summary for the item.
SummaryEntries(itemId) ==
    {k \in DOMAIN report.summary.dailyDemandByItem :
        report.summary.dailyDemandByItem[k].itemId = itemId}

RiskDays(forecast, itemId) ==
    {k \in DOMAIN forecast :
        \E i \in DOMAIN forecast[k].items :
            forecast[k].items[i].itemId = itemId /\ forecast[k].items[i].risk}

\* C29: itemsAtRisk is the number of distinct items that are at risk on at
\* least one of the days of the forecast.
C29_ItemsAtRisk ==
    Reported =>
        report.summary.itemsAtRisk =
            Cardinality({id \in SeqSet(MenuIds) : RiskDays(report.forecast, id) # {}})

\* i1 is at risk on all seven days, i2 on none: one item is at risk.
C29_Witness ==
    /\ Reported
    /\ Cardinality(RiskDays(report.forecast, "i1")) = 7
    /\ \E k \in ForecastDays : EntriesOf(k, "i2") # {}
    /\ RiskDays(report.forecast, "i2") = {}
    /\ report.summary.itemsAtRisk = 1

\* Both items are at risk on several days: two items are at risk.
C29_WitnessBoth ==
    /\ Reported
    /\ Cardinality(RiskDays(report.forecast, "i1")) > 1
    /\ Cardinality(RiskDays(report.forecast, "i2")) > 1
    /\ report.summary.itemsAtRisk = 2

\* The forecast of the same auto-orders at the same instant with the item's
\* stock set to stock.
ForecastWithStock(itemId, stock) ==
    computeForecast(autoOrders, [menuItems EXCEPT ![itemId].quantity = stock],
                    forecastAt).forecast

\* C30: for every menu item and every stock s2 no larger than its stock, the
\* days on which the item is at risk with stock s2, all else equal, include
\* the days on which it is at risk in the report.
C30_RiskMonotone ==
    Reported =>
        \A id \in MenuIdSet : \A s2 \in 0..StockOf(id) :
            RiskDays(report.forecast, id)
                \subseteq RiskDays(ForecastWithStock(id, s2), id)

\* With stock 2 and one unit a day i1 is at risk from the third day on; with
\* stock 0 it is at risk from the first.
C30_Witness ==
    /\ Reported
    /\ menuItems["i1"].quantity = 2
    /\ RiskDays(report.forecast, "i1") = 3..7
    /\ RiskDays(ForecastWithStock("i1", 0), "i1") = 1..7


\* ============================================ Refunds across requests (Spec)

\* The refund entries written for an order.
RefundsOf(o) ==
    {k \in DOMAIN walletTransactions :
        /\ walletTransactions[k].type = "refund"
        /\ walletTransactions[k].orderId = orders[o].orderId}

\* C31: across any sequence of order-update requests every order is refunded
\* at most once: there is never more than one refund entry for an order.
C31_RefundedOnce ==
    \A o \in OrderIds : Cardinality(RefundsOf(o)) <= 1


\* ============================================ The log and the balance (Spec)

RECURSIVE LogSum(_, _)
\* The sum of the amounts of the entries of the given type in a log.
LogSum(log, type) ==
    IF log = << >> THEN 0
    ELSE (IF Head(log).type = type THEN Head(log).amount ELSE 0)
             + LogSum(Tail(log), type)

\* totalBalance of the wallet, 0 while there is no wallet.
SettledBalance == IF wallet.exists THEN wallet.totalBalance ELSE 0

\* C32: in every reachable state totalBalance is the sum of the credit entries
\* of the log minus the sum of its withdrawal entries minus the sum of its
\* refund_deduction entries.
C32_LogExplainsBalance ==
    SettledBalance = LogSum(canteenTransactions, "credit")
                         - LogSum(canteenTransactions, "withdrawal")
                         - LogSum(canteenTransactions, "refund_deduction")

\* An order was completed, part of the credit withdrawn, and the order refunded
\* out of the settled balance: the log has an entry of each of the three types.
C32_Witness ==
    /\ Len(canteenTransactions) = 3
    /\ {canteenTransactions[k].type : k \in 1..3} =
           {"credit", "withdrawal", "refund_deduction"}
    /\ LogSum(canteenTransactions, "credit") = MaxAmount
    /\ LogSum(canteenTransactions, "withdrawal") = 1
    /\ wallet.totalBalance = -1


\* ================================== Transitions outside the table (SpecLedger)

\* The rows of the transition table of the specification (section 4.1).
TableRows ==
    ({"pending"} \X (ActiveStatuses \cup {"completed", "cancelled"}))
        \cup (ActiveStatuses \X {"completed", "cancelled"})
        \cup {<<"completed", "cancelled">>}

\* C33: an applied transition whose (oldStatus, newStatus) is no row of the
\* transition table, made on a wallet whose stored todayDate is the current
\* date, leaves pendingAmount, totalBalance and todayCollection as they were
\* and writes no log entry.
C33_OutsideTableNoEffect ==
    [][ (/\ IsApplied
         /\ <<Call.oldStatus, Call.newStatus>> \notin TableRows
         /\ wallet.exists /\ wallet.todayDate = DateOf(now))
        => /\ wallet'.pendingAmount = wallet.pendingAmount
           /\ wallet'.totalBalance = wallet.totalBalance
           /\ wallet'.todayCollection = wallet.todayCollection
           /\ LogUnchanged ]_vars

\* A completed order was moved back to ready on a wallet of today that holds
\* settled funds, and the wallet and the log are as before.
C33_Witness ==
    /\ lastOp.op = "transition"
    /\ lastOp.oldStatus = "completed" /\ lastOp.newStatus = "ready"
    /\ lastOp.amount = MaxAmount
    /\ lastOp.before.exists /\ lastOp.before.todayDate = DateOf(now)
    /\ lastOp.before.totalBalance = MaxBal
    /\ wallet = lastOp.before
    /\ canteenTransactions = << WithdrawalEntry(1) >>


\* ================================== Prep time without a status (SpecRequest)

\* The order document with the preparation-time fields a request at tick t sets.
WithPrepTime(orderData, prepTime, t) ==
    [orderData EXCEPT !.prepTime = prepTime, !.estimatedReadyAt = t + prepTime,
                      !.readyAt = t + prepTime]

\* C34: a successful order-update request with a prepTime and no status
\* confirms a pending order and, in the same step, adds the order total to
\* pendingAmount; for an order in any other status it changes the
\* preparation-time fields of the order and nothing else, in particular not the
\* status and not the wallet.
C34_PrepTimePromotes ==
    [][ \A o \in OrderIds :
          (PATCH(o, NoStatus, 1) /\ lastOp'.code = 200)
          => IF orders[o].status = "pending"
             THEN /\ orders' = [orders EXCEPT ![o] =
                                   [WithPrepTime(@, 1, now) EXCEPT
                                        !.status = "confirmed"]]
                  /\ wallet'.exists
                  /\ wallet'.pendingAmount = wallet.pendingAmount + orders[o].total
                  /\ wallet'.totalBalance = wallet.totalBalance
                  /\ LogUnchanged
             ELSE /\ orders' = [orders EXCEPT ![o] = WithPrepTime(@, 1, now)]
                  /\ orders'[o].status = orders[o].status
                  /\ wallet' = wallet
                  /\ LogUnchanged ]_vars

\* Order o2 was pending; the request left it confirmed with its prep time set
\* and its total added to the escrow the wallet already held.
C34_Witness ==
    /\ lastOp.op = "PATCH" /\ lastOp.code = 200
    /\ orders["o2"].status = "confirmed"
    /\ orders["o2"].prepTime = 1 /\ orders["o2"].readyAt = now + 1
    /\ wallet.exists /\ wallet.pendingAmount = 1 + MaxAmount
    /\ wallet.todayDate = DateOf(now)

\* Order o1 was ready; the request set its prep time, and the countdown it had
\* cleared is set again; the order is still ready.
C34_WitnessOtherStatus ==
    /\ lastOp.op = "PATCH" /\ lastOp.code = 200
    /\ orders["o1"].status = "ready"
    /\ orders["o1"].prepTime = 1 /\ orders["o1"].readyAt = now + 1
    /\ wallet.exists /\ wallet.pendingAmount = 1


\* ================================== The countdown of a ready order (SpecRequest)

\* C35: whenever a successful order-update request leaves its order with status
\* ready, the order's readyAt and estimatedReadyAt are null after the commit.
C35_ReadyClearsCountdown ==
    [][ \A o \in OrderIds, status \in Statuses \cup {NoStatus}, prepTime \in PrepTimes :
          (/\ PATCH(o, status, prepTime)
           /\ lastOp'.code = 200
           /\ orders'[o].status = "ready")
          => /\ orders'[o].readyAt = Null
             /\ orders'[o].estimatedReadyAt = Null ]_vars


\* ================================== Payment verification (SpecVerify)

\* The top-up entries written for a payment id.
TopUpsFor(paymentId) ==
    {k \in DOMAIN walletTransactions :
        /\ walletTransactions[k].type = "topup"
        /\ walletTransactions[k].razorpayPaymentId = paymentId}

\* The top-up entries written for a user.
TopUpsOf(uid) ==
    {k \in DOMAIN walletTransactions :
        /\ walletTransactions[k].type = "topup"
        /\ walletTransactions[k].userId = uid}

\* The dedup record, the credit and the log entry go together: a payment id has
\* a record exactly when it has a top-up entry, it never has two, the entry
\* carries the record's user and amount, and every user's balance is the sum of
\* the user's top-up entries.
CreditedOnce ==
    /\ \A p \in PaymentIds :
           /\ Cardinality(TopUpsFor(p)) <= 1
           /\ payments[p].exists <=> TopUpsFor(p) # {}
           /\ \A k \in TopUpsFor(p) :
                  /\ walletTransactions[k].userId = payments[p].userId
                  /\ walletTransactions[k].amount = payments[p].amount
    /\ \A u \in UserIds :
           users[u].walletBalance =
               SumOver(TopUpsOf(u),
                       [k \in DOMAIN walletTransactions |->
                           walletTransactions[k].amount])

\* The step answers client c's request for a payment id that already has its
\* record.
AnswersProcessed(c) ==
    /\ verifying[c].pc # "done" /\ verifying'[c].pc = "done"
    /\ verifying'[c].paymentId \in PaymentIds
    /\ payments[verifying'[c].paymentId].exists

\* C36: in every interleaving of verification requests a payment id is credited
\* at most once and has at most one top-up entry; the dedup record, the credit
\* and the entry are written together or not at all; and a request answered
\* when its payment id already has a record fails and changes nothing.
C36_CreditedOnce ==
    /\ []CreditedOnce
    /\ [][ \A c \in Clients :
             AnswersProcessed(c)
             => /\ verifying'[c].response.code # 200
                /\ UNCHANGED <<payments, users, walletTransactions>> ]_vars

\* Both clients verified payment pay1 for user u1 and read the dedup record
\* before either committed: one was credited, the other was run again and
\* refused.
C36_Witness ==
    /\ \A c \in Clients :
           /\ verifying[c].pc = "done"
           /\ verifying[c].paymentId = "pay1" /\ verifying[c].uid = "u1"
    /\ \E c \in Clients : verifying[c].response.code = 200
    /\ \E c \in Clients :
           /\ verifying[c].response.error = "Payment already processed"
           /\ verifying[c].attempt = 2
    /\ payments["pay1"].exists
    /\ users["u1"].walletBalance = payments["pay1"].amount
    /\ Len(walletTransactions) = 1

\* C37: for every payment verified, the whole rupees credited, times 100, are
\* no more than the paise charged for the order.
C37_CreditWithinCharge ==
    \A p \in PaymentIds :
        payments[p].exists
        => payments[p].amount * PaisePerRupee <= payments[p].amountPaise


\* ================================== Menu categories (SpecCategories)

\* Every client is idle or has its answer.
NoCategoryRequestRunning == \A c \in Clients : catReq[c].pc \in {"idle", "done"}

\* C38: after any interleaving of category create requests no two categories
\* have the same slug.
C38_UniqueSlugs ==
    (\A c \in Clients : catReq[c].op \in {"", "POST"})
    => \A i, j \in DOMAIN categories :
           categories[i].slug = categories[j].slug => i = j

\* C39: once the rename requests have been handled, no menu item is left
\* referencing a slug that no category has.
C39_RenameCascades ==
    NoCategoryRequestRunning
    => \A m \in MenuItemIds : categoriesWithSlug(itemCategory[m]) # {}


\* ================================== Forecast horizon (SpecForecast)

\* The calendar day at UTC+5:30 of the instant the report was computed at.
ReferenceDate == (forecastAt + IST_OFFSET_MS) \div DayMs

\* The days of the report on which the item is listed.
DaysListing(itemId) == {k \in ForecastDays : EntriesOf(k, itemId) # {}}

\* C40: every report has exactly 7 day entries, for 7 consecutive calendar
\* dates starting at the reference date in the UTC+5:30 calendar; each of the
\* weekdays Mon..Sun occurs exactly once; and an item's cumulativeDemand on
\* the last day it is listed is the sum of its aggregated demand over all
\* weekdays.
C40_SevenDays ==
    Reported =>
        /\ Len(report.forecast) = 7
        /\ \A k \in ForecastDays : report.forecast[k].date = ReferenceDate + k - 1
        /\ \A day \in DaySet :
               Cardinality({k \in ForecastDays : report.forecast[k].dayName = day}) = 1
        /\ \A itemId \in MenuIdSet : \A k \in DaysListing(itemId) :
               (\A j \in DaysListing(itemId) : j <= k)
               => \A i \in EntriesOf(k, itemId) :
                      ItemsOn(k)[i].cumulativeDemand =
                          SumOver(DaySet, [day \in DaySet |-> Demand(itemId, day)])

\* Computed in the first half hour of a day at UTC+5:30, which is still the
\* day before at UTC: the report starts on a Monday, and i1, wanted on
\* weekdays and twice on Sundays, is listed last on the seventh day with the
\* whole week's demand.
C40_Witness ==
    /\ Reported
    /\ forecastAt = DayMs - IST_OFFSET_MS
    /\ forecastAt \div DayMs # ReferenceDate
    /\ report.forecast[1].dayName = "Mon"
    /\ autoOrders["a1"].status = "active" /\ autoOrders["a1"].itemId = "i1"
    /\ autoOrders["a1"].frequency = "weekdays" /\ autoOrders["a1"].quantity = 1
    /\ autoOrders["a2"].status = "active" /\ autoOrders["a2"].itemId = "i1"
    /\ autoOrders["a2"].frequency = "custom"
    /\ autoOrders["a2"].customDays = DayArray(<<"Sun", "Sun">>)
    /\ autoOrders["a2"].quantity = 1
    /\ DaysListing("i1") = {1, 2, 3, 4, 5, 7}
    /\ \E i \in EntriesOf(7, "i1") : ItemsOn(7)[i].cumulativeDemand = 7

====
